---- MODULE Spec2Model ----
(***************************************************************************)
(* Model of the microservice client layer of the EdgExpo backend           *)
(* (Backend/backend/services/microservice_client.py): the operation-level  *)
(* retry decorator with_retry, the ServiceSession transport wrapper with   *)
(* its urllib3 Retry policy, and the client methods                        *)
(* STTServiceClient.transcribe, TTSServiceClient.synthesize and            *)
(* LLMServiceClient.generate / chat.                                       *)
(*                                                                         *)
(* One behaviour is one call of one wrapped method.  Times are in          *)
(* milliseconds (0.5 s = 500).  The backend is the environment: each       *)
(* request gets an answer chosen from AnswerSet, or, for a scripted        *)
(* backend, status 500 exactly scriptN times and 200 afterwards.           *)
(***************************************************************************)
EXTENDS Integers, Sequences, FiniteSets, TLC

VARIABLES
    op,             \* the wrapped method being called
    max_retries,    \* with_retry(max_retries=...)
    backoff_factor, \* with_retry(backoff_factor=...), in milliseconds
    fileExists,     \* transcribe: whether open(audio_file_path) succeeds
    scriptN,        \* scripted backend: number of 500 answers; -1 = free
    left500,        \* scripted backend: 500 answers still to give
    pc,             \* position of the call in the per-call state machine
    attempt,        \* loop variable of with_retry.wrapper
    last_exception, \* with_retry.wrapper local
    raised,         \* exception propagated to the caller
    result,         \* value returned to the caller
    sleeps,         \* durations passed to time.sleep by the wrapper
    calls,          \* invocations of the wrapped function
    retries_left,   \* urllib3 Retry.total left in the current request
    nreq,           \* requests that reached the backend in this call
    firstAns,       \* first answer of the backend in this call
    lastAns,        \* latest answer of the backend in this call
    outcome,        \* how the latest invocation of the function ended
    reqFails,       \* invocations that raised a RequestException
    http_status,    \* status the gateway route answered with; 0 = not yet
    accessor,       \* the lazily-initialising accessor the threads call
    handle,         \* the module global it guards; 0 = None, else object id
    constructions,  \* service objects constructed so far
    tpc,            \* per thread: position in the accessor
    tnew,           \* per thread: the object it constructed; 0 = none
    tret,           \* per thread: the object the accessor returned; 0 = none
    endpoint,       \* the health route being served
    rag_service,    \* app.py global rag_service; 0 = None
    crm_service,    \* app.py global crm_service; 0 = None
    hpc,            \* position of the health handler
    stt_health,     \* what stt_client.check_health() returned
    tts_health,     \* what tts_client.check_health() returned
    embedding_health, \* what embedding_client.check_health() returned
    llm_health,     \* what llm_client.check_health() returned
    llm_probes,     \* the probes LLMServiceClient.check_health issued
    probe_failed,   \* per client: whether its backend probe failed
    report,         \* the answer of the health route
    service_url,    \* per client: its service_url attribute
    esimple,        \* how the embedding backend answers POST /embed/batch
    eprimary,       \* how the embedding backend answers POST /api/embeddings
    json_is_reqexc, \* whether response.json() fails with a RequestException
    eop,            \* the EmbeddingServiceClient method called
    etexts,         \* its texts argument
    epc,            \* position of the embedding call
    ereqs,          \* the endpoints requested by the call, in order
    eresult,        \* what the call returned or raised
    lclient,        \* the client whose method builds the request data
    language,       \* the language argument of the call
    sent_language,  \* the language field of the request data
    lang_fed,       \* whether the argument is the code sent by the call before
    lang_log,       \* the codes sent so far, in order
    tts_dir,        \* the files of the TTS client's temp cache directory
    tts_op,         \* the TTSServiceClient method called last
    tts_ans,        \* the final answer of the backend to that call
    tts_body,       \* the body of that answer
    tts_ret,        \* what the call returned or raised
    tts_paths,      \* the paths returned by synthesize so far, in order
    is_processing,  \* whisper_api_server.py global is_processing
    transcription_queue, \* the global queue: ids of the queued requests
    spc,            \* per /transcribe handler: its position
    queue_size,     \* per handler: its local queue_size
    answer,         \* per handler: the status it answered; 0 = not yet
    queue_position, \* per handler: the queue_position of its 202 answer
    raising,        \* per handler: an exception is propagating
    processed,      \* ids of the requests given to process_transcription
    session_open,   \* per client: whether its ServiceSession is open
    client_used,    \* per client: whether a method of it has been called
    close_ret,      \* per client: how its close() ended
    knowledge_items, \* MicroserviceRAGService.knowledge_items: id -> content
    vector_store,   \* the documents of the Chroma collection
    custom_kb,      \* the items of custom_kb.json
    rag_op,         \* the MicroserviceRAGService operation performed last
    rag_query,      \* the query field of the /api/rag request
    rag_language,   \* the language field of the /api/rag request
    failed_step,    \* the step of query that failed, if any
    query_out,      \* how query ended: what it returned, or that it raised
    rag_status,     \* the status /api/rag answered with; 0 = not yet
    rag_id,         \* the item id the update or delete worked on
    rag_content,    \* the content argument of the update
    add_failed,     \* whether the update's add to the vector store failed
    rag_ret,        \* what the update or delete returned
    list_ret,       \* what list_knowledge_items returned: (id, content) pairs
    deleted_ids,    \* ids deleted with True and not updated since
    rag_ops,        \* operations performed on the service so far
    contacts_file,  \* the "contacts" list of contacts.json
    crm_created,    \* contact ids generated so far
    crm_op,         \* the CRMService method that ran last
    crm_arg,        \* its contact_id argument
    crm_ret,        \* what it returned
    crm_before,     \* the "contacts" list before it ran
    cpc,            \* per create_contact request: its position
    ccontact,       \* per request: the Contact it built
    cdata,          \* per request: the contacts its _load_contacts returned
    crm_returned    \* the ids of the contacts create_contact has returned

\* The state of one call of a wrapped client method
callVars == <<op, max_retries, backoff_factor, fileExists, scriptN, left500, pc,
              attempt, last_exception, raised, result, sleeps, calls,
              retries_left, nreq, firstAns, lastAns, outcome, reqFails>>

\* The state of the gateway route serving the call
gwVars == <<http_status>>

\* The state of the lazily-initialised singletons
singVars == <<accessor, handle, constructions, tpc, tnew, tret>>

\* The state of the health routes
healthVars == <<endpoint, rag_service, crm_service, hpc, stt_health, tts_health,
                embedding_health, llm_health, llm_probes, probe_failed, report,
                service_url>>

\* The state of a call of the embedding client
embVars == <<esimple, eprimary, json_is_reqexc, eop, etexts, epc, ereqs, eresult>>

\* The language argument and the request data of the STT and TTS calls
langVars == <<lclient, language, sent_language, lang_fed, lang_log>>

\* The TTS client: its temp cache directory and its last call
ttsVars == <<tts_dir, tts_op, tts_ans, tts_body, tts_ret, tts_paths>>

\* The STT server: its globals and its /transcribe handlers
srvVars == <<is_processing, transcription_queue, spc, queue_size, answer,
             queue_position, raising, processed>>

\* The life cycle of the four clients
closeVars == <<session_open, client_used, close_ret>>

\* The RAG service: its knowledge base and its last operation
ragVars == <<knowledge_items, vector_store, custom_kb, rag_op, rag_query,
             rag_language, failed_step, query_out, rag_status, rag_id,
             rag_content, add_failed, rag_ret, list_ret, deleted_ids, rag_ops>>

\* The contact store: its file, its last call and its concurrent requests
crmVars == <<contacts_file, crm_created, crm_op, crm_arg, crm_ret, crm_before,
             cpc, ccontact, cdata, crm_returned>>

\* The state of the other components of the backend
compVars == <<singVars, healthVars, embVars, langVars, ttsVars, srvVars, closeVars, ragVars, crmVars>>

vars == <<callVars, gwVars, compVars>>

\* What the actions of each component leave unchanged
singFrame == <<callVars, gwVars, healthVars, embVars, langVars, ttsVars, srvVars, closeVars, ragVars, crmVars>>

healthFrame == <<callVars, gwVars, singVars, embVars, langVars, ttsVars, srvVars, closeVars, ragVars, crmVars>>

embFrame == <<callVars, gwVars, singVars, healthVars, langVars, ttsVars, srvVars, closeVars, ragVars, crmVars>>

langFrame == <<callVars, gwVars, singVars, healthVars, embVars, ttsVars, srvVars, closeVars, ragVars, crmVars>>

srvFrame == <<callVars, gwVars, singVars, healthVars, embVars, langVars, ttsVars, closeVars, ragVars, crmVars>>

ttsFrame == <<callVars, gwVars, singVars, healthVars, embVars, langVars, srvVars, closeVars, ragVars, crmVars>>

closeFrame == <<callVars, gwVars, singVars, healthVars, embVars, langVars, ttsVars, srvVars, ragVars, crmVars>>

ragFrame == <<callVars, gwVars, singVars, healthVars, embVars, langVars, ttsVars, srvVars, closeVars, crmVars>>

crmFrame == <<callVars, gwVars, singVars, healthVars, embVars, langVars, ttsVars, srvVars, closeVars, ragVars>>

----------------------------------------------------------------------------
(* Bounds of the model *)

MaxGenRetries == 3      \* max_retries of the generic wrapped function
MaxScript == 17         \* largest N of the scripted backend
NumThreads == 3         \* concurrent first callers of a singleton accessor
MaxTexts == 2           \* longest texts argument of an embedding call
MaxLangCalls == 3       \* calls in a row of a method that maps a language code
MaxNames == 3           \* file names available in the TTS temp cache directory
NumHandlers == 3        \* concurrent /transcribe requests of the STT server
MaxRagOps == 3          \* operations performed on the RAG service
MaxContacts == 3        \* contacts created in the contact store
NumCreators == 2        \* concurrent POST /api/crm/contacts requests

----------------------------------------------------------------------------
(* Decorator parameters of the clients and session configuration *)

Ops == {"wrapped", "transcribe", "synthesize", "generate", "chat"}

SessionOps == {"transcribe", "synthesize"}

LLMOps == {"generate", "chat"}

STT_MAX_RETRIES == 2
STT_BACKOFF == 500
STT_SESSION_RETRIES == 2
TTS_MAX_RETRIES == 3
TTS_BACKOFF == 400
TTS_SESSION_RETRIES == 3
LLM_MAX_RETRIES == 2
LLM_BACKOFF == 800
DEFAULT_BACKOFF == 300

OpMaxRetries(o) ==
    CASE o = "transcribe" -> STT_MAX_RETRIES
      [] o = "synthesize" -> TTS_MAX_RETRIES
      [] OTHER -> LLM_MAX_RETRIES

OpBackoff(o) ==
    CASE o = "transcribe" -> STT_BACKOFF
      [] o = "synthesize" -> TTS_BACKOFF
      [] OTHER -> LLM_BACKOFF

SessionRetries(o) ==
    CASE o = "transcribe" -> STT_SESSION_RETRIES
      [] o = "synthesize" -> TTS_SESSION_RETRIES
      [] OTHER -> 0

ServiceName(o) ==
    CASE o = "transcribe" -> "STT"
      [] o = "synthesize" -> "TTS"
      [] OTHER -> "LLM"

\* Retry(status_forcelist=[429, 500, 502, 503, 504])
StatusForcelist == {429, 500, 502, 503, 504}

----------------------------------------------------------------------------
(* The backend's answers *)

Statuses == {200, 201, 202, 400, 404, 429, 500, 503}

NetFailures == {"refused", "ctimeout", "rtimeout"}

BackendDetail == "backend-detail"

StatusAns(s) == [kind |-> "status", code |-> s]

NoAns == [kind |-> "none", code |-> 0]

AnswerSet ==
    {StatusAns(s) : s \in Statuses} \cup {[kind |-> k, code |-> 0] : k \in NetFailures}

----------------------------------------------------------------------------
(* Exceptions: kind, whether it is a requests RequestException, the service
   named in the message, the status code in the message, the backend's
   error detail embedded in the message *)

Exc(k, r, svc, st, d) ==
    [kind |-> k, req |-> r, service |-> svc, status |-> st, detail |-> d]

NoExc == Exc("None", FALSE, "", 0, "")

\* Faulty variant: the wrapper catches every exception in its retrying clause.
IsRequestException_Any(e) == e.kind # "None"

\* except requests.exceptions.RequestException as e
IsRequestException(e) == e.req

----------------------------------------------------------------------------
(* with_retry.wrapper: the retry decision and the backoff schedule *)

Pow2(n) == IF n <= 0 THEN 1 ELSE 2 ^ n

\* Faulty variant: a linear instead of an exponential backoff.
WaitTime_Linear(bf, att) == bf * (att + 1)

\* wait_time = backoff_factor * (2 ** attempt)
WaitTime(bf, att) == bf * Pow2(att)

\* Faulty variant: the loop runs range(max_retries) instead of range(max_retries + 1).
ShouldRetry_OffByOne(att, mr) == att < mr - 1

\* Faulty variant: the wrapper also sleeps and loops at the last index.
ShouldRetry_Inclusive(att, mr) == att <= mr

\* if attempt < max_retries: sleep and loop; else: raise
ShouldRetry(att, mr) == att < mr

----------------------------------------------------------------------------
(* ServiceSession: transport-level retry (urllib3 Retry mounted on the
   session) and the mapping of requests' exceptions in request() *)

\* Faulty variant: the transport retries on every error status.
TransportRetryable_AllErrors(a) ==
    \/ a.kind = "status" /\ a.code >= 400
    \/ a.kind \in NetFailures

\* Retry(total=max_retries, status_forcelist=..., allowed_methods=[.., "POST"]):
\* the adapter re-sends while Retry.total is not exhausted when the answer is
\* a status of the forcelist or a connection / timeout failure.
TransportRetryable(a) ==
    \/ a.kind = "status" /\ a.code \in StatusForcelist
    \/ a.kind \in NetFailures

\* response.raise_for_status()
IsHTTPErrorStatus(s) == s >= 400 /\ s < 600

\* The outcome of ServiceSession.request once the adapter stops re-sending
\* with answer a.  A forcelist status with the retries exhausted leaves the
\* adapter as requests.exceptions.RetryError, which none of the three except
\* clauses catches; a connect timeout is requests' ConnectTimeout (a
\* Timeout); a refused connection or a read timeout after the retries is
\* requests' ConnectionError.
SessionError(svc, a) ==
    CASE a.kind = "ctimeout" -> Exc("Timeout", FALSE, svc, 0, "")
      [] a.kind \in {"refused", "rtimeout"} -> Exc("ConnectionError", FALSE, svc, 0, "")
      [] a.kind = "status" /\ a.code \in StatusForcelist ->
            Exc("RetryError", TRUE, "", a.code, "")
      [] a.kind = "status" /\ a.code \notin StatusForcelist /\ IsHTTPErrorStatus(a.code) ->
            Exc("HTTPError", FALSE, svc, a.code, "")
      [] OTHER -> NoExc

----------------------------------------------------------------------------
(* Method bodies: the outcome of one invocation, given what
   self.session.request produced for the last answer a *)

Ok(v) == [ok |-> TRUE, value |-> v, exc |-> NoExc]

Raise(e) == [ok |-> FALSE, value |-> "", exc |-> e]

\* Faulty variant: a queued (202) answer is handled like a 200.
TranscribeResponse_AcceptsQueued(a) ==
    IF a.code \in {200, 202} THEN Ok("transcription")
    ELSE Raise(Exc("STTError", FALSE, "STT", a.code, BackendDetail))

\* STTServiceClient.transcribe, after self.session.request returned
TranscribeResponse(a) ==
    IF a.code = 200 THEN Ok("transcription")
    ELSE IF a.code = 202 THEN Raise(Exc("Busy", FALSE, "STT", 0, ""))
    ELSE Raise(Exc("STTError", FALSE, "STT", a.code, BackendDetail))

\* TTSServiceClient.synthesize, after self.session.request returned (the
\* detail is appended when the body of the answer parses as JSON, which the
\* answers of the model do)
SynthesizeResponse(a) ==
    IF a.code = 200 THEN Ok("wav-path")
    ELSE Raise(Exc("TTSError", FALSE, "TTS", a.code, BackendDetail))

\* The body of transcribe / synthesize for the final answer a of the request
SessionBody(o, a) ==
    LET e == SessionError(ServiceName(o), a) IN
    IF e # NoExc THEN Raise(e)
    ELSE IF o = "transcribe" THEN TranscribeResponse(a)
    ELSE SynthesizeResponse(a)

\* open(audio_file_path, 'rb') of transcribe fails
OpenError == Exc("OSError", FALSE, "", 0, "")

\* LLMServiceClient.generate / chat: except Exception as e:
\*     raise Exception(f"LLM服務錯誤: {str(e)}")
LLMError == Exc("LLMError", FALSE, "LLM", 0, "")

LLMBodyResult(good) == IF good THEN Ok("completion") ELSE Raise(LLMError)

\* A function wrapped by with_retry directly
WrappedOutcomes == {"ok", "request_exception", "other_exception"}

WrappedResult(out) ==
    CASE out = "ok" -> Ok("value")
      [] out = "request_exception" -> Raise(Exc("RequestException", TRUE, "", 0, ""))
      [] OTHER -> Raise(Exc("Other", FALSE, "", 0, ""))

----------------------------------------------------------------------------
(* The per-call state machine *)

Terminal == {"Success", "PermanentFailure", "Busy"}

PcStates == {"Idle", "InFlight", "TransientFailure"} \cup Terminal

\* The state in which the wrapper leaves the call when the exception e
\* propagates to the caller
FailureState(e) == IF e.kind = "Busy" THEN "Busy" ELSE "PermanentFailure"

Clients == {"stt", "tts", "embedding", "llm"}

\* A value returned by check_health(): whether the call raised instead,
\* whether the value is a mapping, its 'status' entry ("" when absent) and
\* whether it has an 'error' entry
Health(m, st, err) == [raised |-> FALSE, mapping |-> m, status |-> st, error |-> err]

NoHealth == Health(FALSE, "none", FALSE)

NoReport ==
    [unhandled |-> FALSE, code |-> 0, status |-> "", error |-> FALSE, services |-> <<>>]

\* The service_url each client was constructed with
ConfiguredUrls == [c \in Clients |-> <<c, "url">>]

\* No health route is being served
HealthIdle ==
    /\ service_url = ConfiguredUrls
    /\ endpoint = "health"
    /\ rag_service = 0
    /\ crm_service = 0
    /\ hpc = "idle"
    /\ stt_health = NoHealth
    /\ tts_health = NoHealth
    /\ embedding_health = NoHealth
    /\ llm_health = NoHealth
    /\ llm_probes = <<>>
    /\ probe_failed = [c \in Clients |-> FALSE]
    /\ report = NoReport

\* Result of a call of the embedding client: a list of vectors (or one
\* vector), or an exception with its message
EmbOk(v) == [raised |-> FALSE, value |-> v, msg |-> ""]

EmbRaise(m) == [raised |-> TRUE, value |-> <<>>, msg |-> m]

\* No call of the embedding client is in progress
EmbIdle ==
    /\ esimple = "up"
    /\ eprimary = "up"
    /\ json_is_reqexc = TRUE
    /\ eop = "none"
    /\ etexts = <<>>
    /\ epc = "idle"
    /\ ereqs = <<>>
    /\ eresult = EmbOk(<<>>)

\* No call has built request data
LangIdle ==
    /\ lclient = "STT"
    /\ language = ""
    /\ sent_language = ""
    /\ lang_fed = FALSE
    /\ lang_log = <<>>

\* File names of the temp cache directory
Names == 1..MaxNames

\* Result of a TTS client method
TtsOk(v) == [raised |-> FALSE, value |-> v]

TtsRaise == [raised |-> TRUE, value |-> "exception"]

\* The TTS client was constructed on an empty cache directory
TtsIdle ==
    /\ tts_dir = [n \in Names |-> "absent"]
    /\ tts_op = "none"
    /\ tts_ans = NoAns
    /\ tts_body = ""
    /\ tts_ret = TtsOk("")
    /\ tts_paths = <<>>

\* The /transcribe handlers; a request is named after its handler
Handlers == 1..NumHandlers

\* The STT server has started and no request has arrived
SrvIdle ==
    /\ is_processing = FALSE
    /\ transcription_queue = <<>>
    /\ spc = [h \in Handlers |-> "idle"]
    /\ queue_size = [h \in Handlers |-> 0]
    /\ answer = [h \in Handlers |-> 0]
    /\ queue_position = [h \in Handlers |-> 0]
    /\ raising = [h \in Handlers |-> FALSE]
    /\ processed = {}

\* The clients that hold a ServiceSession (self.session)
HasSession(c) == c \in {"stt", "tts"}

\* The clients have been constructed, none used or closed
CloseIdle ==
    /\ session_open = [c \in Clients |-> HasSession(c)]
    /\ client_used = [c \in Clients |-> FALSE]
    /\ close_ret = [c \in Clients |-> "none"]

\* The ids of the knowledge items: those of company_info.json and
\* qa_pairs.json, and one id that update_knowledge_item generates
BaseIds == {"company_info", "qa_1"}

GeneratedId == "kb_generated"

Ids == BaseIds \cup {GeneratedId}

\* The contents of the items: that of the knowledge base files, and an edit
FileContent == "file"

Contents == {FileContent, "edited"}

\* knowledge_items has no entry for the id
NoItem == "absent"

\* What query returned, or that it raised
Returned(v) == [kind |-> "return", value |-> v]

QueryRaised == [kind |-> "raise", value |-> ""]

NoQuery == [kind |-> "none", value |-> ""]

\* The items of S held with the content of the files
ItemsOf(S) == [i \in Ids |-> IF i \in S THEN FileContent ELSE NoItem]

\* The documents of the items of S
DocsOf(S) == {<<i, FileContent>> : i \in S}

\* The service has been constructed: _load_knowledge_base has added the
\* items of S, the add of the others has failed
RagLoaded(S) ==
    /\ knowledge_items = ItemsOf(S)
    /\ vector_store = DocsOf(S)
    /\ custom_kb = ItemsOf({})
    /\ rag_op = "none"
    /\ rag_query = ""
    /\ rag_language = <<>>
    /\ failed_step = "none"
    /\ query_out = NoQuery
    /\ rag_status = 0
    /\ rag_id = ""
    /\ rag_content = ""
    /\ add_failed = FALSE
    /\ rag_ret = "none"
    /\ list_ret = {}
    /\ deleted_ids = {}
    /\ rag_ops = 0

RagIdle == RagLoaded(BaseIds)

\* The concurrent create_contact requests
Creators == 1..NumCreators

\* No Contact object
NoContact == [contact_id |-> 0, name |-> "", created_at |-> "", updated_at |-> ""]

\* A CRMService method has returned v, with the Contact c if it returns one
CrmRet(v, c) == [value |-> v, contact |-> c]

\* The contact store has been constructed: contacts.json holds no contact
CrmIdle ==
    /\ contacts_file = <<>>
    /\ crm_created = 0
    /\ crm_op = "none"
    /\ crm_arg = 0
    /\ crm_ret = CrmRet("none", NoContact)
    /\ crm_before = <<>>
    /\ cpc = [t \in Creators |-> "idle"]
    /\ ccontact = [t \in Creators |-> NoContact]
    /\ cdata = [t \in Creators |-> <<>>]
    /\ crm_returned = {}

\* The components that have a specification of their own are idle
LateIdle == CloseIdle /\ RagIdle /\ CrmIdle

RestIdle == LangIdle /\ TtsIdle /\ SrvIdle /\ LateIdle

\* No thread calls an accessor
SingIdle ==
    /\ accessor = "get_crm_service"
    /\ handle = 0
    /\ constructions = 0
    /\ tpc = [t \in 1..NumThreads |-> "idle"]
    /\ tnew = [t \in 1..NumThreads |-> 0]
    /\ tret = [t \in 1..NumThreads |-> 0]

Init ==
    /\ op \in Ops
    /\ IF op = "wrapped"
       THEN /\ max_retries \in 0..MaxGenRetries
            /\ backoff_factor \in {DEFAULT_BACKOFF, STT_BACKOFF}
       ELSE /\ max_retries = OpMaxRetries(op)
            /\ backoff_factor = OpBackoff(op)
    /\ fileExists \in IF op = "transcribe" THEN BOOLEAN ELSE {TRUE}
    /\ scriptN \in IF op \in SessionOps THEN -1..MaxScript ELSE {-1}
    /\ left500 = IF scriptN < 0 THEN 0 ELSE scriptN
    /\ pc = "Idle"
    /\ attempt = 0
    /\ last_exception = NoExc
    /\ raised = NoExc
    /\ result = ""
    /\ sleeps = <<>>
    /\ calls = 0
    /\ retries_left = 0
    /\ nreq = 0
    /\ firstAns = NoAns
    /\ lastAns = NoAns
    /\ outcome = Ok("")
    /\ reqFails = 0
    /\ http_status = 0
    /\ SingIdle
    /\ HealthIdle
    /\ EmbIdle
    /\ RestIdle

\* with_retry.wrapper, the handling of the outcome r of func(*args, **kwargs)
\* at loop index attempt: return, catch a RequestException (sleep and loop,
\* or raise at the last index), or re-raise any other exception.
\* The raise last_exception after the loop (line 41) is never reached: the
\* last index either returns or raises.
Finish(r) ==
    /\ outcome' = r
    /\ IF r.ok
       THEN /\ pc' = "Success"
            /\ result' = r.value
            /\ UNCHANGED <<last_exception, raised, reqFails>>
       ELSE IF IsRequestException(r.exc)
       THEN /\ last_exception' = r.exc
            /\ reqFails' = reqFails + 1
            /\ result' = result
            /\ IF ShouldRetry(attempt, max_retries)
               THEN pc' = "TransientFailure" /\ raised' = raised
               ELSE pc' = FailureState(r.exc) /\ raised' = r.exc
       ELSE /\ pc' = FailureState(r.exc)
            /\ raised' = r.exc
            /\ UNCHANGED <<last_exception, result, reqFails>>

\* The caller invokes the wrapped method: wrapper enters its loop and calls
\* func for the first time.
Call ==
    /\ UNCHANGED <<gwVars, compVars>>
    /\ pc = "Idle"
    /\ pc' = "InFlight"
    /\ attempt' = 0
    /\ calls' = calls + 1
    /\ retries_left' = SessionRetries(op)
    /\ UNCHANGED <<op, max_retries, backoff_factor, fileExists, scriptN, left500,
                   last_exception, raised, result, sleeps, nreq, firstAns, lastAns,
                   outcome, reqFails>>

\* One invocation of a directly wrapped function.
WrappedBody ==
    /\ UNCHANGED <<gwVars, compVars>>
    /\ pc = "InFlight"
    /\ op = "wrapped"
    /\ \E out \in WrappedOutcomes : Finish(WrappedResult(out))
    /\ UNCHANGED <<op, max_retries, backoff_factor, fileExists, scriptN, left500,
                   attempt, sleeps, calls, retries_left, nreq, firstAns, lastAns>>

\* transcribe: open(audio_file_path, 'rb') raises before any request.
OpenFails ==
    /\ UNCHANGED <<gwVars, compVars>>
    /\ pc = "InFlight"
    /\ op = "transcribe"
    /\ ~fileExists
    /\ Finish(Raise(OpenError))
    /\ UNCHANGED <<op, max_retries, backoff_factor, fileExists, scriptN, left500,
                   attempt, sleeps, calls, retries_left, nreq, firstAns, lastAns>>

\* The answers the backend may give to the next request
NextAnswers ==
    IF scriptN < 0 THEN AnswerSet
    ELSE IF left500 > 0 THEN {StatusAns(500)} ELSE {StatusAns(200)}

\* transcribe / synthesize: one request of self.session.request reaches the
\* backend.  The adapter re-sends it while the Retry policy allows; otherwise
\* request() returns or raises, the method body ends and the wrapper handles
\* its outcome.
BackendRequest ==
    /\ UNCHANGED <<gwVars, compVars>>
    /\ pc = "InFlight"
    /\ op \in SessionOps
    /\ fileExists
    /\ \E a \in NextAnswers :
        /\ nreq' = nreq + 1
        /\ lastAns' = a
        /\ firstAns' = IF nreq = 0 THEN a ELSE firstAns
        /\ left500' = IF left500 > 0 THEN left500 - 1 ELSE left500
        /\ IF TransportRetryable(a) /\ retries_left > 0
           THEN /\ retries_left' = retries_left - 1
                /\ UNCHANGED <<pc, last_exception, raised, result, outcome, reqFails>>
           ELSE /\ retries_left' = retries_left
                /\ Finish(SessionBody(op, a))
    /\ UNCHANGED <<op, max_retries, backoff_factor, fileExists, scriptN,
                   attempt, sleeps, calls>>

\* generate / chat: one self.client.chat.completions.create call.
LLMBody ==
    /\ UNCHANGED <<gwVars, compVars>>
    /\ pc = "InFlight"
    /\ op \in LLMOps
    /\ \E good \in BOOLEAN : Finish(LLMBodyResult(good))
    /\ UNCHANGED <<op, max_retries, backoff_factor, fileExists, scriptN, left500,
                   attempt, sleeps, calls, retries_left, nreq, firstAns, lastAns>>

\* with_retry.wrapper after catching a RequestException with attempts left:
\* time.sleep(wait_time), then the next loop index calls func again.
Retry ==
    /\ UNCHANGED <<gwVars, compVars>>
    /\ pc = "TransientFailure"
    /\ sleeps' = Append(sleeps, WaitTime(backoff_factor, attempt))
    /\ attempt' = attempt + 1
    /\ calls' = calls + 1
    /\ retries_left' = SessionRetries(op)
    /\ pc' = "InFlight"
    /\ UNCHANGED <<op, max_retries, backoff_factor, fileExists, scriptN, left500,
                   last_exception, raised, result, nreq, firstAns, lastAns,
                   outcome, reqFails>>

----------------------------------------------------------------------------
(* The gateway routes /api/asr and /api/tts (app.py): the except clause that
   picks the HTTP status from the text of the client's exception *)

\* What the message str(e) of an exception of the client layer says after
\* the service name
ExcPhrase(e) ==
    CASE e.kind = "Timeout" -> "request-timeout"
      [] e.kind = "ConnectionError" -> "connection-failed"
      [] e.kind = "HTTPError" -> "http-error"
      [] e.kind = "Busy" -> "busy-queued"
      [] e.kind \in {"STTError", "TTSError", "LLMError"} -> "service-error"
      [] e.kind = "RetryError" -> "max-retries-exceeded"
      [] OTHER -> "other"

\* The text the routes look for: "<service>服務暫時不可用"
UnavailablePhrase == "temporarily-unavailable"

\* if "STT服務暫時不可用" in str(e): 503  else: 500   (likewise for TTS)
GatewayStatus(o, e) ==
    IF e.service = ServiceName(o) /\ ExcPhrase(e) = UnavailablePhrase
    THEN 503
    ELSE 500

\* speech_to_text / text_to_speech answer once the client call has ended.
GatewayRespond ==
    /\ op \in SessionOps
    /\ pc \in Terminal
    /\ http_status = 0
    /\ http_status' = IF pc = "Success" THEN 200 ELSE GatewayStatus(op, raised)
    /\ UNCHANGED <<callVars, compVars>>

Next ==
    \/ Call
    \/ WrappedBody
    \/ OpenFails
    \/ BackendRequest
    \/ LLMBody
    \/ Retry
    \/ GatewayRespond

Spec == Init /\ [][Next]_vars

\* The wrapper and the method bodies are sequential code: an enabled step is
\* eventually taken (sleeps and requests with a timeout end).
FairSpec == Spec /\ WF_vars(Next)

TypeOK ==
    /\ op \in Ops
    /\ pc \in PcStates
    /\ attempt \in 0..(MaxGenRetries + 1)
    /\ calls \in Nat
    /\ nreq \in Nat

----------------------------------------------------------------------------
(* Lazily-initialised singletons: get_rag_service and get_crm_service of
   app.py, get_crm_service of models/crm_service.py and get_model_manager of
   inference_engine.py.  All four are the same unguarded check-then-set on
   a module global; threads serving concurrent requests interleave between
   the test, the construction, the assignment and the return. *)

Threads == 1..NumThreads

Accessors == {"get_rag_service", "get_crm_service", "get_model_manager"}

\* No client call is in progress
CallIdle ==
    /\ op = "wrapped"
    /\ max_retries = 0
    /\ backoff_factor = DEFAULT_BACKOFF
    /\ fileExists = TRUE
    /\ scriptN = -1
    /\ left500 = 0
    /\ pc = "Idle"
    /\ attempt = 0
    /\ last_exception = NoExc
    /\ raised = NoExc
    /\ result = ""
    /\ sleeps = <<>>
    /\ calls = 0
    /\ retries_left = 0
    /\ nreq = 0
    /\ firstAns = NoAns
    /\ lastAns = NoAns
    /\ outcome = Ok("")
    /\ reqFails = 0
    /\ http_status = 0

\* The process has just started: the global is None and every thread is
\* about to make its first call of the accessor.
SingInit ==
    /\ accessor \in Accessors
    /\ handle = 0
    /\ constructions = 0
    /\ tpc = [t \in Threads |-> "call"]
    /\ tnew = [t \in Threads |-> 0]
    /\ tret = [t \in Threads |-> 0]
    /\ CallIdle
    /\ HealthIdle
    /\ EmbIdle
    /\ RestIdle

\* if rag_service is None:
TestNone(t) ==
    /\ tpc[t] = "call"
    /\ tpc' = [tpc EXCEPT ![t] = IF handle = 0 THEN "construct" ELSE "return"]
    /\ UNCHANGED <<accessor, handle, constructions, tnew, tret>>
    /\ UNCHANGED singFrame

\* MicroserviceRAGService() / CRMService() / ModelManager(): the right-hand
\* side of the assignment builds a new object.
Construct(t) ==
    /\ tpc[t] = "construct"
    /\ constructions' = constructions + 1
    /\ tnew' = [tnew EXCEPT ![t] = constructions + 1]
    /\ tpc' = [tpc EXCEPT ![t] = "assign"]
    /\ UNCHANGED <<accessor, handle, tret>>
    /\ UNCHANGED singFrame

\* rag_service = <the new object>
Assign(t) ==
    /\ tpc[t] = "assign"
    /\ handle' = tnew[t]
    /\ tpc' = [tpc EXCEPT ![t] = "return"]
    /\ UNCHANGED <<accessor, constructions, tnew, tret>>
    /\ UNCHANGED singFrame

\* return rag_service
Return(t) ==
    /\ tpc[t] = "return"
    /\ tret' = [tret EXCEPT ![t] = handle]
    /\ tpc' = [tpc EXCEPT ![t] = "done"]
    /\ UNCHANGED <<accessor, handle, constructions, tnew>>
    /\ UNCHANGED singFrame

SingNext == \E t \in Threads : TestNone(t) \/ Construct(t) \/ Assign(t) \/ Return(t)

SingletonSpec == SingInit /\ [][SingNext]_vars

----------------------------------------------------------------------------
(* Health checks: check_health of the four clients
   (microservice_client.py) and the routes /api/health and
   /api/v1/system/health (app.py).  A probe of a backend ends with an answer
   of AnswerSet and, for an answered probe, a body. *)

\* Bodies of an answer to GET /health: a JSON mapping with status healthy,
\* with status unhealthy and an error, without a status; a JSON value that
\* is no mapping; a body that is no JSON
Bodies == {"healthy", "unhealthy", "nostatus", "nonmap", "unparsable"}

Unreachable == Health(TRUE, "unreachable", TRUE)

\* {"status": "unhealthy", "error": f"HTTP {response.status_code}"}
UnhealthyHTTP == Health(TRUE, "unhealthy", TRUE)

\* response.json() for a body that parses
BodyValue(b) ==
    CASE b = "healthy" -> Health(TRUE, "healthy", FALSE)
      [] b = "unhealthy" -> Health(TRUE, "unhealthy", TRUE)
      [] b = "nostatus" -> Health(TRUE, "", FALSE)
      [] OTHER -> Health(FALSE, "", FALSE)

\* return response.json() inside try / except Exception
JsonOrUnreachable(b) == IF b = "unparsable" THEN Unreachable ELSE BodyValue(b)

\* STTServiceClient.check_health
STTCheckHealth(a, b) ==
    IF SessionError("STT", a) # NoExc THEN Unreachable ELSE JsonOrUnreachable(b)

\* TTSServiceClient.check_health
TTSCheckHealth(a, b) ==
    IF SessionError("TTS", a) # NoExc THEN Unreachable
    ELSE IF a.code = 200 THEN JsonOrUnreachable(b)
    ELSE UnhealthyHTTP

\* Faulty variant: the body is returned whatever the status code is.
EmbCheckHealth_IgnoresStatus(a, b) ==
    IF a.kind \in NetFailures THEN Unreachable ELSE JsonOrUnreachable(b)

\* EmbeddingServiceClient.check_health (requests.get, no session)
EmbCheckHealth(a, b) ==
    IF a.kind \in NetFailures THEN Unreachable
    ELSE IF a.code = 200 THEN JsonOrUnreachable(b)
    ELSE UnhealthyHTTP

\* Faulty variant: the completion probe is issued whatever the first probe
\* gave.
LLMProbes_Both(listOk, complOk) ==
    <<[probe |-> "list", ok |-> listOk], [probe |-> "completion", ok |-> complOk]>>

\* LLMServiceClient.check_health: the probes issued, in order, given how the
\* list-models block and the 1-token completion block would end
LLMProbes(listOk, complOk) ==
    IF listOk THEN <<[probe |-> "list", ok |-> TRUE]>>
    ELSE <<[probe |-> "list", ok |-> FALSE], [probe |-> "completion", ok |-> complOk]>>

\* LLMServiceClient.check_health: the value returned after the probes pr
LLMCheckHealth(pr) ==
    IF pr[Len(pr)].ok THEN Health(TRUE, "healthy", FALSE) ELSE Unreachable

\* The probe of the backend failed: timeout, connection failure, HTTP error
\* status, or an answer whose body cannot be parsed
ProbeFailed(a, b) ==
    \/ a.kind \in NetFailures
    \/ a.kind = "status" /\ IsHTTPErrorStatus(a.code)
    \/ a.kind = "status" /\ b = "unparsable"

\* h.get('status') raises (AttributeError) unless h is a mapping
GetThrows(h) == h.raised \/ ~h.mapping

\* h.get('status') == 'healthy'
IsHealthy(h) == h.status = "healthy"

\* Faulty variant: the overall status also requires the rag flag.
CoreReady_WithRag(stt, tts, emb, llm, rag) == stt /\ tts /\ emb /\ llm /\ rag

\* core_microservices_ready of health_check
CoreReady(stt, tts, emb, llm, rag) == stt /\ tts /\ emb /\ llm

\* health_check: the report, given the four values and the two globals
HealthReport(sh, th, eh, lh, rag, crm) ==
    LET stt == IsHealthy(sh)
        tts == IsHealthy(th)
        emb == IsHealthy(eh)
        llm == IsHealthy(lh)
        ragf == rag # 0 /\ emb /\ llm
    IN [unhandled |-> FALSE,
        code |-> 200,
        status |-> IF CoreReady(stt, tts, emb, llm, ragf) THEN "healthy" ELSE "partial",
        error |-> FALSE,
        services |-> [stt |-> stt, tts |-> tts, embedding |-> emb, llm |-> llm,
                      rag |-> ragf, crm |-> crm # 0]]

\* An exception that leaves the route's function
Unhandled ==
    [unhandled |-> TRUE, code |-> 500, status |-> "", error |-> FALSE, services |-> <<>>]

\* except Exception as e: {'status': 'unhealthy', 'error': str(e)}, 500
UnhealthyReport ==
    [unhandled |-> FALSE, code |-> 500, status |-> "unhealthy", error |-> TRUE,
     services |-> <<>>]

ReadyWord(b) == IF b THEN "ready" ELSE "not_ready"

\* Faulty variant: any() instead of all().
PocAllReady_Any(sv) == sv.whisper = "ready" \/ sv.llm = "ready" \/ sv.tts = "ready"

\* all(status == 'ready' for status in services_status.values())
PocAllReady(sv) == sv.whisper = "ready" /\ sv.llm = "ready" /\ sv.tts = "ready"

\* Building services_status raises: .get on a value that is no mapping; the
\* llm entry is an `and` chain, so llm_health.get is evaluated only when
\* the embedding status is healthy
PocThrows(sh, th, eh, lh) ==
    \/ GetThrows(sh)
    \/ GetThrows(eh)
    \/ IsHealthy(eh) /\ GetThrows(lh)
    \/ GetThrows(th)

\* poc_health_check: the report, given the four values and rag_service
PocReport(sh, th, eh, lh, rag) ==
    IF PocThrows(sh, th, eh, lh) THEN UnhealthyReport
    ELSE LET sv == [whisper |-> ReadyWord(IsHealthy(sh)),
                    llm |-> ReadyWord(IsHealthy(eh) /\ IsHealthy(lh) /\ rag # 0),
                    tts |-> ReadyWord(IsHealthy(th))]
         IN [unhandled |-> FALSE,
             code |-> 200,
             status |-> IF PocAllReady(sv) THEN "healthy" ELSE "partial",
             error |-> FALSE,
             services |-> sv]

\* Faulty variant: the handle is read through its lazy accessor
\* (get_rag_service() / get_crm_service()), which constructs it when None.
HandleRead_Lazy(h) == IF h = 0 THEN 1 ELSE h

\* 'rag_service is not None' / 'crm_service is not None': the global as it
\* is after the route has read it
HandleRead(h) == h

\* A request of a health route arrives
HealthInit ==
    /\ service_url = ConfiguredUrls
    /\ endpoint \in {"health", "poc"}
    /\ rag_service \in {0, 1}
    /\ crm_service \in {0, 1}
    /\ hpc = "stt"
    /\ stt_health = NoHealth
    /\ tts_health = NoHealth
    /\ embedding_health = NoHealth
    /\ llm_health = NoHealth
    /\ llm_probes = <<>>
    /\ probe_failed = [c \in Clients |-> FALSE]
    /\ report = NoReport
    /\ CallIdle
    /\ SingIdle
    /\ EmbIdle
    /\ RestIdle

\* What follows a check_health() that returned h, next being the position
\* after it: health_check evaluates h.get('status') at once and the
\* exception leaves the route; poc_health_check goes on to the next client.
AfterProbe(h, next) ==
    IF endpoint = "health" /\ GetThrows(h)
    THEN hpc' = "done" /\ report' = Unhandled
    ELSE hpc' = next /\ report' = report

\* stt_health = stt_client.check_health()
CheckSTT ==
    /\ hpc = "stt"
    /\ \E a \in AnswerSet, b \in Bodies :
        /\ stt_health' = STTCheckHealth(a, b)
        /\ probe_failed' = [probe_failed EXCEPT !["stt"] = ProbeFailed(a, b)]
        /\ AfterProbe(STTCheckHealth(a, b), "tts")
    /\ UNCHANGED <<endpoint, rag_service, crm_service, tts_health,
                   embedding_health, llm_health, llm_probes, service_url>>
    /\ UNCHANGED healthFrame

\* tts_health = tts_client.check_health()
CheckTTS ==
    /\ hpc = "tts"
    /\ \E a \in AnswerSet, b \in Bodies :
        /\ tts_health' = TTSCheckHealth(a, b)
        /\ probe_failed' = [probe_failed EXCEPT !["tts"] = ProbeFailed(a, b)]
        /\ AfterProbe(TTSCheckHealth(a, b), "embedding")
    /\ UNCHANGED <<endpoint, rag_service, crm_service, stt_health,
                   embedding_health, llm_health, llm_probes, service_url>>
    /\ UNCHANGED healthFrame

\* embedding_health = embedding_client.check_health()
CheckEmbedding ==
    /\ hpc = "embedding"
    /\ \E a \in AnswerSet, b \in Bodies :
        /\ embedding_health' = EmbCheckHealth(a, b)
        /\ probe_failed' = [probe_failed EXCEPT !["embedding"] = ProbeFailed(a, b)]
        /\ AfterProbe(EmbCheckHealth(a, b), "llm")
    /\ UNCHANGED <<endpoint, rag_service, crm_service, stt_health, tts_health,
                   llm_health, llm_probes, service_url>>
    /\ UNCHANGED healthFrame

\* llm_health = llm_client.check_health(), and the rest of the route: the
\* flags, the overall status and the answer.
CheckLLM ==
    /\ hpc = "llm"
    /\ \E listOk \in BOOLEAN, complOk \in BOOLEAN :
        LET pr == LLMProbes(listOk, complOk)
            lh == LLMCheckHealth(pr)
        IN /\ llm_probes' = pr
           /\ llm_health' = lh
           /\ probe_failed' = [probe_failed EXCEPT !["llm"] = ~listOk /\ ~complOk]
           /\ hpc' = "done"
           /\ report' =
                IF endpoint = "health"
                THEN IF GetThrows(lh) THEN Unhandled
                     ELSE HealthReport(stt_health, tts_health, embedding_health, lh,
                                       rag_service, crm_service)
                ELSE PocReport(stt_health, tts_health, embedding_health, lh,
                               rag_service)
    /\ rag_service' = HandleRead(rag_service)
    /\ crm_service' = HandleRead(crm_service)
    /\ UNCHANGED <<endpoint, stt_health, tts_health, embedding_health, service_url>>
    /\ UNCHANGED healthFrame

HealthNext == CheckSTT \/ CheckTTS \/ CheckEmbedding \/ CheckLLM

HealthSpec == HealthInit /\ [][HealthNext]_vars

----------------------------------------------------------------------------
(* The embedding client: EmbeddingServiceClient.get_embeddings,            *)
(* get_embedding and get_embedding_batch_simple.  The client uses plain    *)
(* requests.post: no session retry and no with_retry.  The backend is      *)
(* deterministic within a behaviour: each endpoint answers every request   *)
(* the same way.                                                           *)

Texts == {"t1", "t2"}

TextLists == UNION {[1..n -> Texts] : n \in 0..MaxTexts}

\* engine.embed(text): the vector of a text
Vec(t) == IF t = "t1" THEN <<1, 2>> ELSE <<3, 4>>

\* Answers of POST /api/embeddings: 200 with one vector per text, 200 with
\* a JSON object that has no 'embeddings' key, 500, no connection, 200 with
\* a body that is not JSON
PrimaryModes == {"up", "nokey", "http500", "down", "garbage"}

\* Answers of POST /embed/batch: as above, and 422 (what the service of
\* this repository answers to the JSON object the client posts)
SimpleModes == {"up", "nokey", "http422", "http500", "down", "garbage"}

EmbMethods == {"get_embeddings", "get_embedding", "get_embedding_batch_simple"}

\* 'input': texts if len(texts) > 1 else texts[0]
WireInput(texts) ==
    IF Len(texts) > 1
    THEN [list |-> TRUE, texts |-> texts]
    ELSE [list |-> FALSE, texts |-> <<texts[1]>>]

\* create_embeddings of the service: a string input is one text
ServerEmbeddings(input) == [i \in 1..Len(input.texts) |-> Vec(input.texts[i])]

\* Faulty variant: a failed request is sent once more
GetEmbeddings_Retries(texts, pmode, jre) ==
    IF Len(texts) = 0
    THEN [res |-> EmbRaise("IndexError"), reqs |-> <<>>]
    ELSE IF pmode = "up"
    THEN [res |-> EmbOk(ServerEmbeddings(WireInput(texts))), reqs |-> <<"primary">>]
    ELSE IF pmode = "nokey"
    THEN [res |-> EmbOk(<<>>), reqs |-> <<"primary">>]
    ELSE [res |-> EmbRaise("Embedding-unavailable"), reqs |-> <<"primary", "primary">>]

\* get_embeddings(texts): the result and the requests made.  An empty
\* list fails at texts[0] before any request.
GetEmbeddings(texts, pmode, jre) ==
    IF Len(texts) = 0
    THEN [res |-> EmbRaise("IndexError"), reqs |-> <<>>]
    ELSE [res |->
            CASE pmode = "up" -> EmbOk(ServerEmbeddings(WireInput(texts)))
              [] pmode = "nokey" -> EmbOk(<<>>)
              [] pmode = "http500" -> EmbRaise("Embedding-error-500")
              [] pmode = "down" -> EmbRaise("Embedding-unavailable")
              [] OTHER -> IF jre THEN EmbRaise("Embedding-unavailable")
                          ELSE EmbRaise("JSONDecodeError"),
          reqs |-> <<"primary">>]

\* Faulty variant: the first vector is cut short
FirstOrEmpty_Truncated(embeddings) ==
    IF embeddings # <<>>
    THEN SubSeq(embeddings[1], 1, Len(embeddings[1]) - 1)
    ELSE <<>>

\* embeddings[0] if embeddings else []
FirstOrEmpty(embeddings) ==
    IF embeddings # <<>> THEN embeddings[1] ELSE <<>>

\* get_embedding(text)
GetEmbedding(t, pmode, jre) ==
    LET r == GetEmbeddings(<<t>>, pmode, jre)
    IN [res |-> IF r.res.raised THEN r.res ELSE EmbOk(FirstOrEmpty(r.res.value)),
        reqs |-> r.reqs]

\* get_embedding_batch_simple(texts): one request of /embed/batch; a 200
\* with a usable body is returned; a non-200 calls get_embeddings inside
\* the try, so that its exception reaches the except clause, which calls
\* get_embeddings again; an exception of the request or of response.json()
\* reaches the except clause directly.
GetEmbeddingBatchSimple(texts, smode, pmode, jre) ==
    LET first == GetEmbeddings(texts, pmode, jre)
        again == GetEmbeddings(texts, pmode, jre)
    IN CASE smode = "up" ->
              [res |-> EmbOk([i \in 1..Len(texts) |-> Vec(texts[i])]),
               reqs |-> <<"simple">>]
         [] smode = "nokey" ->
              [res |-> EmbOk(<<>>), reqs |-> <<"simple">>]
         [] smode \in {"http422", "http500"} ->
              IF first.res.raised
              THEN [res |-> again.res,
                    reqs |-> <<"simple">> \o first.reqs \o again.reqs]
              ELSE [res |-> first.res, reqs |-> <<"simple">> \o first.reqs]
         [] OTHER ->
              [res |-> first.res, reqs |-> <<"simple">> \o first.reqs]

\* A caller is about to use the embedding client against some backend
EmbInit ==
    /\ esimple \in SimpleModes
    /\ eprimary \in PrimaryModes
    /\ json_is_reqexc \in BOOLEAN
    /\ eop = "none"
    /\ etexts = <<>>
    /\ epc = "idle"
    /\ ereqs = <<>>
    /\ eresult = EmbOk(<<>>)
    /\ CallIdle
    /\ SingIdle
    /\ HealthIdle
    /\ RestIdle

EmbDone(m, texts, r) ==
    /\ eop' = m
    /\ etexts' = texts
    /\ epc' = "done"
    /\ ereqs' = r.reqs
    /\ eresult' = r.res
    /\ UNCHANGED <<esimple, eprimary, json_is_reqexc>>
    /\ UNCHANGED embFrame

CallGetEmbeddings ==
    /\ epc = "idle"
    /\ \E texts \in TextLists :
        EmbDone("get_embeddings", texts, GetEmbeddings(texts, eprimary, json_is_reqexc))

CallGetEmbedding ==
    /\ epc = "idle"
    /\ \E t \in Texts :
        EmbDone("get_embedding", <<t>>, GetEmbedding(t, eprimary, json_is_reqexc))

CallGetEmbeddingBatchSimple ==
    /\ epc = "idle"
    /\ \E texts \in TextLists :
        EmbDone("get_embedding_batch_simple", texts,
                GetEmbeddingBatchSimple(texts, esimple, eprimary, json_is_reqexc))

EmbNext == CallGetEmbeddings \/ CallGetEmbedding \/ CallGetEmbeddingBatchSimple

EmbSpec == EmbInit /\ [][EmbNext]_vars

----------------------------------------------------------------------------
(* The language-code mapping of STTServiceClient.transcribe and            *)
(* TTSServiceClient.synthesize: each call maps its language argument       *)
(* through lang_mapping.get(language, language) and puts the result in     *)
(* the request data.  A caller may pass any code, among them the code a    *)
(* call before sent.                                                       *)

\* Language codes a caller may pass: the keys of the two tables, their
\* values, and codes in neither
Codes == {"zh-TW", "zh-CN", "zh", "en-US", "en", "zh-tw", "zh-cn", "ja", "EN", ""}

\* Faulty variant: zh-CN is missing from the table
STTLang_NoSimplified(c) ==
    CASE c \in {"zh-TW", "zh"} -> "zh"
      [] c \in {"en-US", "en"} -> "en"
      [] OTHER -> c

\* transcribe: stt_language = lang_mapping.get(language, language)
STTLang(c) ==
    CASE c = "zh-TW" -> "zh"
      [] c = "zh-CN" -> "zh"
      [] c = "zh" -> "zh"
      [] c = "en-US" -> "en"
      [] c = "en" -> "en"
      [] OTHER -> c

\* Faulty variant: the bare zh is sent on as the key zh-TW
TTSLang_NotCanonical(c) ==
    CASE c = "zh-TW" -> "zh-tw"
      [] c = "zh-CN" -> "zh-cn"
      [] c = "zh" -> "zh-TW"
      [] c \in {"en-US", "en"} -> "en"
      [] OTHER -> c

\* synthesize: tts_language = lang_mapping.get(language, language)
TTSLang(c) ==
    CASE c = "zh-TW" -> "zh-tw"
      [] c = "zh-CN" -> "zh-cn"
      [] c = "zh" -> "zh-tw"
      [] c = "en-US" -> "en"
      [] c = "en" -> "en"
      [] OTHER -> c

LangOf(cl, c) == IF cl = "STT" THEN STTLang(c) ELSE TTSLang(c)

\* A client is about to be called
LangInit ==
    /\ lclient \in {"STT", "TTS"}
    /\ language = ""
    /\ sent_language = ""
    /\ lang_fed = FALSE
    /\ lang_log = <<>>
    /\ CallIdle
    /\ SingIdle
    /\ HealthIdle
    /\ EmbIdle
    /\ TtsIdle
    /\ SrvIdle
    /\ LateIdle

LangSend(c, fed) ==
    /\ language' = c
    /\ sent_language' = LangOf(lclient, c)
    /\ lang_fed' = fed
    /\ lang_log' = Append(lang_log, LangOf(lclient, c))
    /\ UNCHANGED lclient
    /\ UNCHANGED langFrame

\* The method is called with a language code of the caller's choice
CallWithLanguage ==
    /\ Len(lang_log) < MaxLangCalls
    /\ \E c \in Codes : LangSend(c, FALSE)

\* The method is called with the code the call before sent
CallWithSentLanguage ==
    /\ lang_log # <<>>
    /\ Len(lang_log) < MaxLangCalls
    /\ LangSend(sent_language, TRUE)

LangNext == CallWithLanguage \/ CallWithSentLanguage

LangSpec == LangInit /\ [][LangNext]_vars

----------------------------------------------------------------------------
(* The TTS client beyond the retry layer: the temp cache directory that    *)
(* synthesize writes to, and get_available_languages /                     *)
(* get_available_voices.  tts_dir maps each file name to its content, or   *)
(* to "absent".  tts_ans is the answer self.session.request ends on.       *)

\* Audio payloads of a 200 answer of /tts
Payloads == {"B1", "B2"}

\* Bodies of the answers of /languages and /voices: a JSON object with the
\* key, one without it, JSON that is not an object, not JSON
ListBodies == {"listed", "nokey", "nonmap", "unparsable"}

\* Faulty variant: the name is chosen without regard to the existing files
FreshNames_Any(dir) == Names

\* tempfile.NamedTemporaryFile(suffix='.wav', delete=False, dir=temp_dir):
\* the file is created exclusively, under a name no file of the directory has
FreshNames(dir) == {n \in Names : dir[n] = "absent"}

\* Faulty variant: the file goes away when it is closed (delete=True)
AfterClose_Deleted(dir, n) == [dir EXCEPT ![n] = "absent"]

\* temp_file.close() with delete=False
AfterClose(dir, n) == dir

\* Faulty variant: a failed call gives the empty answer
ListResult_EmptyOnFailure(a, b) ==
    IF SessionError("TTS", a) # NoExc THEN TtsOk("empty")
    ELSE IF a.code # 200 THEN TtsOk("default")
    ELSE IF b = "listed" THEN TtsOk("listed")
    ELSE IF b = "nokey" THEN TtsOk("empty")
    ELSE TtsOk("default")

\* get_available_languages / get_available_voices: the value of the key
\* (or the empty default of .get) on a 200, the hardcoded default on any
\* other status and on every exception
ListResult(a, b) ==
    IF SessionError("TTS", a) # NoExc THEN TtsOk("default")
    ELSE IF a.code # 200 THEN TtsOk("default")
    ELSE IF b = "listed" THEN TtsOk("listed")
    ELSE IF b = "nokey" THEN TtsOk("empty")
    ELSE TtsOk("default")

\* The body that is read from answer a: only a 200 is looked into
BodyRead(a, b) == IF a.kind = "status" /\ a.code = 200 THEN b ELSE ""

\* A TTS client was constructed; the cache directory may hold files of an
\* earlier run
TtsInit ==
    /\ tts_dir \in [Names -> {"absent", "old"}]
    /\ tts_op = "none"
    /\ tts_ans = NoAns
    /\ tts_body = ""
    /\ tts_ret = TtsOk("")
    /\ tts_paths = <<>>
    /\ CallIdle
    /\ SingIdle
    /\ HealthIdle
    /\ EmbIdle
    /\ LangIdle
    /\ SrvIdle
    /\ LateIdle

\* synthesize(text, language), a the final answer of the backend and b the
\* payload of a 200
Synthesize ==
    /\ \E a \in AnswerSet, b \in Payloads :
        /\ tts_op' = "synthesize"
        /\ tts_ans' = a
        /\ tts_body' = BodyRead(a, b)
        /\ IF SessionBody("synthesize", a).ok
           THEN \E n \in FreshNames(tts_dir) :
                   /\ tts_dir' = AfterClose([tts_dir EXCEPT ![n] = b], n)
                   /\ tts_ret' = TtsOk(n)
                   /\ tts_paths' = Append(tts_paths, n)
           ELSE /\ tts_ret' = TtsRaise
                /\ UNCHANGED <<tts_dir, tts_paths>>
    /\ UNCHANGED ttsFrame

TtsList(m) ==
    \E a \in AnswerSet, b \in ListBodies :
        /\ tts_op' = m
        /\ tts_ans' = a
        /\ tts_body' = BodyRead(a, b)
        /\ tts_ret' = ListResult(a, b)
        /\ UNCHANGED <<tts_dir, tts_paths>>

GetAvailableLanguages ==
    /\ TtsList("get_available_languages")
    /\ UNCHANGED ttsFrame

GetAvailableVoices ==
    /\ TtsList("get_available_voices")
    /\ UNCHANGED ttsFrame

\* check_health(), a the final answer of the backend to GET /health
TtsCheckHealth ==
    /\ \E a \in AnswerSet, b \in Bodies :
        /\ tts_op' = "check_health"
        /\ tts_ans' = a
        /\ tts_body' = BodyRead(a, b)
        /\ tts_ret' = TtsOk(TTSCheckHealth(a, b))
    /\ UNCHANGED <<tts_dir, tts_paths>>
    /\ UNCHANGED ttsFrame

TtsNext ==
    Synthesize \/ GetAvailableLanguages \/ GetAvailableVoices \/ TtsCheckHealth

TtsSpec == TtsInit /\ [][TtsNext]_vars

----------------------------------------------------------------------------
(* The STT server (service-stt/whisper_api_server.py): the /transcribe     *)
(* handler, run by one thread per request (app.run(threaded=True)).  The   *)
(* handler reads the queue size, then under processing_lock either puts    *)
(* its request in transcription_queue and answers 202, or sets             *)
(* is_processing and goes on to transcribe its own request and then the    *)
(* queued ones; the finally block resets is_processing under the lock.     *)
(* Each step below is one access to the shared state.                      *)

\* How a call of process_transcription and the clean-up after it end: it
\* returns a result (success or not), or an exception leaves it (the
\* handlers of its except / finally blocks, os.unlink)
ProcessOutcomes == {"returned", "raised"}

\* Faulty variant: the flag is not looked at
MustQueue_IgnoresFlag(flag, qs) == qs > 0

\* if is_processing or queue_size > 0:
MustQueue(flag, qs) == flag \/ qs > 0

SrvInit ==
    /\ SrvIdle
    /\ CallIdle
    /\ SingIdle
    /\ HealthIdle
    /\ EmbIdle
    /\ LangIdle
    /\ TtsIdle
    /\ LateIdle

\* queue_size = transcription_queue.qsize()
ReadQueueSize(h) ==
    /\ spc[h] = "idle"
    /\ queue_size' = [queue_size EXCEPT ![h] = Len(transcription_queue)]
    /\ spc' = [spc EXCEPT ![h] = "lock"]
    /\ UNCHANGED <<is_processing, transcription_queue, answer, queue_position,
                   raising, processed>>
    /\ UNCHANGED srvFrame

\* with processing_lock: the request is queued and answered 202 ...
Enqueue(h) ==
    /\ spc[h] = "lock"
    /\ MustQueue(is_processing, queue_size[h])
    /\ transcription_queue' = Append(transcription_queue, h)
    /\ answer' = [answer EXCEPT ![h] = 202]
    /\ queue_position' = [queue_position EXCEPT ![h] = queue_size[h] + 1]
    /\ spc' = [spc EXCEPT ![h] = "done"]
    /\ UNCHANGED <<is_processing, queue_size, raising, processed>>
    /\ UNCHANGED srvFrame

\* ... or is_processing = True
StartProcessing(h) ==
    /\ spc[h] = "lock"
    /\ ~MustQueue(is_processing, queue_size[h])
    /\ is_processing' = TRUE
    /\ spc' = [spc EXCEPT ![h] = "process"]
    /\ UNCHANGED <<transcription_queue, queue_size, answer, queue_position,
                   raising, processed>>
    /\ UNCHANGED srvFrame

\* result = process_transcription(temp_audio_file.name, ...)
ProcessOwn(h) ==
    /\ spc[h] = "process"
    /\ processed' = processed \cup {h}
    /\ \E o \in ProcessOutcomes :
        /\ raising' = [raising EXCEPT ![h] = (o = "raised")]
        /\ spc' = [spc EXCEPT ![h] = IF o = "raised" THEN "finally" ELSE "drain"]
    /\ UNCHANGED <<is_processing, transcription_queue, queue_size, answer,
                   queue_position>>
    /\ UNCHANGED srvFrame

\* while not transcription_queue.empty(): get_nowait(), process, unlink
ProcessQueued(h) ==
    /\ spc[h] = "drain"
    /\ transcription_queue # <<>>
    /\ transcription_queue' = Tail(transcription_queue)
    /\ processed' = processed \cup {Head(transcription_queue)}
    /\ \E o \in ProcessOutcomes :
        /\ raising' = [raising EXCEPT ![h] = (o = "raised")]
        /\ spc' = [spc EXCEPT ![h] = IF o = "raised" THEN "finally" ELSE "drain"]
    /\ UNCHANGED <<is_processing, queue_size, answer, queue_position>>
    /\ UNCHANGED srvFrame

\* transcription_queue.empty() is true: the loop ends
QueueEmpty(h) ==
    /\ spc[h] = "drain"
    /\ transcription_queue = <<>>
    /\ spc' = [spc EXCEPT ![h] = "finally"]
    /\ UNCHANGED <<is_processing, transcription_queue, queue_size, answer,
                   queue_position, raising, processed>>
    /\ UNCHANGED srvFrame

\* finally: with processing_lock: is_processing = False
ResetFlag(h) ==
    /\ spc[h] = "finally"
    /\ is_processing' = FALSE
    /\ spc' = [spc EXCEPT ![h] = "respond"]
    /\ UNCHANGED <<transcription_queue, queue_size, answer, queue_position,
                   raising, processed>>
    /\ UNCHANGED srvFrame

\* The answer of the request that was processed at once: 200 or 500 from
\* result['success'], 500 when an exception left the handler
Respond(h) ==
    /\ spc[h] = "respond"
    /\ \E st \in {200, 500} :
        answer' = [answer EXCEPT ![h] = IF raising[h] THEN 500 ELSE st]
    /\ spc' = [spc EXCEPT ![h] = "done"]
    /\ UNCHANGED <<is_processing, transcription_queue, queue_size,
                   queue_position, raising, processed>>
    /\ UNCHANGED srvFrame

Handler(h) ==
    \/ ReadQueueSize(h)
    \/ Enqueue(h)
    \/ StartProcessing(h)
    \/ ProcessOwn(h)
    \/ ProcessQueued(h)
    \/ QueueEmpty(h)
    \/ ResetFlag(h)
    \/ Respond(h)

SrvNext == \E h \in Handlers : Handler(h)

SrvSpec == SrvInit /\ [][SrvNext]_vars

\* Every handler that can take a step eventually takes it: threads are
\* scheduled and each transcription terminates
SrvFairSpec == SrvSpec /\ \A h \in Handlers : WF_vars(Handler(h))

----------------------------------------------------------------------------
(* close() of the four clients.  STTServiceClient and TTSServiceClient     *)
(* create self.session in __init__; EmbeddingServiceClient and             *)
(* LLMServiceClient do not.                                                *)

\* The clients whose close() evaluates self.session.close()
ClosesSession(c) == c \in {"stt", "tts", "embedding"}

CloseInit ==
    /\ CloseIdle
    /\ RagIdle
    /\ CrmIdle
    /\ CallIdle
    /\ SingIdle
    /\ HealthIdle
    /\ EmbIdle
    /\ LangIdle
    /\ TtsIdle
    /\ SrvIdle

\* Some method of client c is called and ends
UseClient(c) ==
    /\ ~client_used[c]
    /\ client_used' = [client_used EXCEPT ![c] = TRUE]
    /\ UNCHANGED <<session_open, close_ret>>
    /\ UNCHANGED closeFrame

\* c.close(): self.session.close() raises AttributeError when the client
\* has no attribute session; closing a session twice is harmless
CloseClient(c) ==
    /\ IF ClosesSession(c)
       THEN IF HasSession(c)
            THEN /\ session_open' = [session_open EXCEPT ![c] = FALSE]
                 /\ close_ret' = [close_ret EXCEPT ![c] = "returned"]
            ELSE /\ close_ret' = [close_ret EXCEPT ![c] = "raised"]
                 /\ UNCHANGED session_open
       ELSE /\ close_ret' = [close_ret EXCEPT ![c] = "returned"]
            /\ UNCHANGED session_open
    /\ UNCHANGED client_used
    /\ UNCHANGED closeFrame

CloseNext == \E c \in Clients : UseClient(c) \/ CloseClient(c)

CloseSpec == CloseInit /\ [][CloseNext]_vars

----------------------------------------------------------------------------
(* MicroserviceRAGService and the /api/rag route.  A language is the       *)
(* sequence of its characters.                                             *)

ZH == <<"z", "h">>

ZH_TW == <<"z", "h", "-", "T", "W">>

EN_US == <<"e", "n", "-", "U", "S">>

JA == <<"j", "a">>

\* The language fields the requests carry
RagLanguages == {ZH_TW, ZH, EN_US, JA, <<>>}

\* sub in s
Contains(sub, s) ==
    \E k \in 1..(Len(s) - Len(sub) + 1) : SubSeq(s, k, k + Len(sub) - 1) = sub

\* The two default answers of query
APOLOGY_ZH == "baoqian, wo wufa huida nin de wenti. qing shaohou zai shi."

APOLOGY_EN == "Sorry, I cannot answer your question. Please try again later."

Apology(l) == IF Contains(ZH, l) THEN APOLOGY_ZH ELSE APOLOGY_EN

\* The answer llm_client.generate returns
LLM_ANSWER == "answer"

\* The steps of query that can fail
QuerySteps == {"none", "search", "llm"}

\* Faulty variant: the failure of llm_client.generate leaves query
QueryResult_Propagates(l, failed) ==
    IF failed = "none" THEN Returned(LLM_ANSWER)
    ELSE IF failed = "llm" THEN QueryRaised
    ELSE Returned(Apology(l))

\* query: any exception of similarity_search or of llm_client.generate is
\* caught and the default answer of the language is returned
QueryResult(l, failed) ==
    IF failed = "none" THEN Returned(LLM_ANSWER) ELSE Returned(Apology(l))

\* The status of the answer of /api/rag
RagStatus(q, out) ==
    IF q = "" THEN 400 ELSE IF out.kind = "raise" THEN 500 ELSE 200

RagInit ==
    /\ \E S \in SUBSET BaseIds : RagLoaded(S)
    /\ CallIdle
    /\ SingIdle
    /\ HealthIdle
    /\ EmbIdle
    /\ LangIdle
    /\ TtsIdle
    /\ SrvIdle
    /\ CloseIdle
    /\ CrmIdle

\* What an operation that is not an update or a delete leaves alone
ragEditRecord == <<rag_id, rag_content, add_failed, rag_ret>>

ragQueryRecord == <<rag_query, rag_language, failed_step, query_out, rag_status>>

\* POST /api/rag with the query q and the language l; failed is the step
\* of query that fails
RagQuery(q, l, failed) ==
    /\ rag_ops < MaxRagOps
    /\ rag_ops' = rag_ops + 1
    /\ rag_op' = "query"
    /\ rag_query' = q
    /\ rag_language' = l
    /\ IF q = ""
       THEN /\ failed = "none"
            /\ failed_step' = "none"
            /\ query_out' = NoQuery
       ELSE /\ failed_step' = failed
            /\ query_out' = QueryResult(l, failed)
    /\ rag_status' = RagStatus(q, query_out')
    /\ UNCHANGED <<knowledge_items, vector_store, custom_kb, list_ret, deleted_ids>>
    /\ UNCHANGED ragEditRecord
    /\ UNCHANGED ragFrame

\* The (id, content) pairs of the items held
Listing(items) == {<<i, items[i]>> : i \in {j \in Ids : items[j] # NoItem}}

\* list_knowledge_items(): an empty knowledge_items is loaded again from
\* the files first; S holds the items whose add succeeds
ListKnowledgeItems(S) ==
    /\ rag_ops < MaxRagOps
    /\ rag_ops' = rag_ops + 1
    /\ rag_op' = "list"
    /\ IF knowledge_items = ItemsOf({})
       THEN /\ knowledge_items' = ItemsOf(S)
            /\ vector_store' = vector_store \cup DocsOf(S)
       ELSE /\ S = {}
            /\ UNCHANGED <<knowledge_items, vector_store>>
    /\ list_ret' = Listing(knowledge_items')
    /\ UNCHANGED <<custom_kb, deleted_ids>>
    /\ UNCHANGED ragEditRecord
    /\ UNCHANGED ragQueryRecord
    /\ UNCHANGED ragFrame

\* _add_to_vector_store: a failure of add_documents is logged, nothing is
\* raised and knowledge_items is left as it was
AddToVectorStore(i, c, add_ok) ==
    IF add_ok
    THEN /\ vector_store' = vector_store \cup {<<i, c>>}
         /\ knowledge_items' = [knowledge_items EXCEPT ![i] = c]
    ELSE UNCHANGED <<knowledge_items, vector_store>>

\* _save_to_file: a failure is logged, nothing is raised
SaveToFile(i, c, save_ok) ==
    IF save_ok
    THEN custom_kb' = [custom_kb EXCEPT ![i] = c]
    ELSE UNCHANGED custom_kb

\* The id an update works on: an empty item_id is replaced by a new id
ItemId(arg) == IF arg = "" THEN GeneratedId ELSE arg

\* update_knowledge_item(arg, c)
UpdateKnowledgeItem(arg, c, add_ok, save_ok) ==
    /\ rag_ops < MaxRagOps
    /\ arg = "" => /\ knowledge_items[GeneratedId] = NoItem
                   /\ custom_kb[GeneratedId] = NoItem
                   /\ \A d \in vector_store : d[1] # GeneratedId
    /\ rag_ops' = rag_ops + 1
    /\ rag_op' = "update"
    /\ rag_id' = ItemId(arg)
    /\ rag_content' = c
    /\ AddToVectorStore(ItemId(arg), c, add_ok)
    /\ add_failed' = ~add_ok
    /\ SaveToFile(ItemId(arg), c, save_ok)
    /\ rag_ret' = "True"
    /\ deleted_ids' = deleted_ids \ {ItemId(arg)}
    /\ UNCHANGED list_ret
    /\ UNCHANGED ragQueryRecord
    /\ UNCHANGED ragFrame

\* delete_knowledge_item(i)
DeleteKnowledgeItem(i) ==
    /\ rag_ops < MaxRagOps
    /\ rag_ops' = rag_ops + 1
    /\ rag_op' = "delete"
    /\ rag_id' = i
    /\ IF knowledge_items[i] # NoItem
       THEN /\ knowledge_items' = [knowledge_items EXCEPT ![i] = NoItem]
            /\ rag_ret' = "True"
            /\ deleted_ids' = deleted_ids \cup {i}
       ELSE /\ rag_ret' = "False"
            /\ UNCHANGED <<knowledge_items, deleted_ids>>
    /\ UNCHANGED <<vector_store, custom_kb, rag_content, add_failed, list_ret>>
    /\ UNCHANGED ragQueryRecord
    /\ UNCHANGED ragFrame

RagNext ==
    \/ \E q \in {"", "q"}, l \in RagLanguages, failed \in QuerySteps :
           RagQuery(q, l, failed)
    \/ \E S \in SUBSET BaseIds : ListKnowledgeItems(S)
    \/ \E arg \in (Ids \ {GeneratedId}) \cup {""}, c \in Contents,
          add_ok \in BOOLEAN, save_ok \in BOOLEAN :
           UpdateKnowledgeItem(arg, c, add_ok, save_ok)
    \/ \E i \in Ids : DeleteKnowledgeItem(i)

RagSpec == RagInit /\ [][RagNext]_vars

----------------------------------------------------------------------------
(* CRMService, the contact store of the gateway, and the Contact model.    *)
(* A datetime is "aware" (it has a UTC offset) or "naive"; an ISO string   *)
(* is the sequence of its parts: "T" for the date and time, "+00:00" for   *)
(* a UTC offset, "Z" for the letter Z.  Of the fields of a contact the     *)
(* model keeps contact_id, name, created_at and updated_at.                *)

\* The name fields of the requests
ContactNames == {"Ann", "Bob"}

\* The ids of the contacts: contact_<8 hex digits of a uuid4>, all distinct
ContactIds == 1..MaxContacts

\* datetime.isoformat()
IsoFormat(dt) == IF dt = "aware" THEN <<"T", "+00:00">> ELSE <<"T">>

\* str.replace('Z', '+00:00')
ReplaceZ(str) == [k \in 1..Len(str) |-> IF str[k] = "Z" THEN "+00:00" ELSE str[k]]

\* The strings datetime.fromisoformat accepts
IsIsoFormat(str) == str \in {<<"T">>, <<"T", "+00:00">>}

\* datetime.fromisoformat(str), for a string it accepts
FromIsoFormat(str) == IF Len(str) = 2 THEN "aware" ELSE "naive"

\* Contact(contact_id=i, name=n, ...): the timestamps are
\* datetime.now(timezone.utc)
NewContact(i, n) ==
    [contact_id |-> i, name |-> n, created_at |-> "aware", updated_at |-> "aware"]

\* Contact.to_dict
ToDict(c) ==
    [contact_id |-> c.contact_id,
     name |-> c.name,
     created_at |-> IsoFormat(c.created_at) \o <<"Z">>,
     updated_at |-> IsoFormat(c.updated_at) \o <<"Z">>]

\* Whether Contact.from_dict(d) raises ValueError
FromDictRaises(d) ==
    \/ ~IsIsoFormat(ReplaceZ(d.created_at))
    \/ ~IsIsoFormat(ReplaceZ(d.updated_at))

\* Contact.from_dict(d), when it does not raise
FromDict(d) ==
    [contact_id |-> d.contact_id,
     name |-> d.name,
     created_at |-> FromIsoFormat(ReplaceZ(d.created_at)),
     updated_at |-> FromIsoFormat(ReplaceZ(d.updated_at))]

\* The positions of the contacts of the list with the id i
Positions(contacts, i) == {k \in 1..Len(contacts) : contacts[k].contact_id = i}

\* The first of them
FirstPosition(contacts, i) ==
    CHOOSE k \in Positions(contacts, i) : \A j \in Positions(contacts, i) : k <= j

\* The update data has no name key
NoKey == "no key"

\* The update data of the PUT requests: their name and contact_id keys; a
\* contact_id of 0 stands for no contact_id key
UpdateDatas ==
    [name : ContactNames \cup {NoKey}, contact_id : {0} \cup ContactIds]

\* The loop over update_data.items(): every key but contact_id is set; then
\* updated_at is set to datetime.now().isoformat()
Updated(d, upd) ==
    [d EXCEPT !.name = IF upd.name # NoKey THEN upd.name ELSE @,
              !.updated_at = IsoFormat("naive")]

\* The list without the contacts with the id i
Without(contacts, i) ==
    LET Keep(d) == d.contact_id # i IN SelectSeq(contacts, Keep)

\* The state of the concurrent requests
creatorVars == <<cpc, ccontact, cdata, crm_returned>>

CrmInit ==
    /\ CrmIdle
    /\ CallIdle
    /\ SingIdle
    /\ HealthIdle
    /\ EmbIdle
    /\ LangIdle
    /\ TtsIdle
    /\ SrvIdle
    /\ CloseIdle
    /\ RagIdle

\* create_contact({'name': n}), run alone
CreateContact(n) ==
    /\ crm_created < MaxContacts
    /\ crm_created' = crm_created + 1
    /\ crm_op' = "create"
    /\ crm_arg' = crm_created'
    /\ crm_before' = contacts_file
    /\ contacts_file' = Append(contacts_file, ToDict(NewContact(crm_created', n)))
    /\ crm_ret' = CrmRet("contact", NewContact(crm_created', n))
    /\ UNCHANGED creatorVars
    /\ UNCHANGED crmFrame

\* get_contact(i): the ValueError of Contact.from_dict is caught and None
\* is returned
GetContact(i) ==
    /\ crm_op' = "get"
    /\ crm_arg' = i
    /\ crm_before' = contacts_file
    /\ crm_ret' = IF Positions(contacts_file, i) = {}
                  THEN CrmRet("None", NoContact)
                  ELSE LET d == contacts_file[FirstPosition(contacts_file, i)]
                       IN  IF FromDictRaises(d)
                           THEN CrmRet("None", NoContact)
                           ELSE CrmRet("contact", FromDict(d))
    /\ UNCHANGED <<contacts_file, crm_created>>
    /\ UNCHANGED creatorVars
    /\ UNCHANGED crmFrame

\* update_contact(i, upd): the contacts are saved before Contact.from_dict
\* is called, whose ValueError is caught and None is returned
UpdateContact(i, upd) ==
    /\ crm_op' = "update"
    /\ crm_arg' = i
    /\ crm_before' = contacts_file
    /\ IF Positions(contacts_file, i) = {}
       THEN /\ crm_ret' = CrmRet("None", NoContact)
            /\ UNCHANGED contacts_file
       ELSE LET k == FirstPosition(contacts_file, i)
                d == Updated(contacts_file[k], upd)
            IN  /\ contacts_file' = [contacts_file EXCEPT ![k] = d]
                /\ crm_ret' = IF FromDictRaises(d)
                              THEN CrmRet("None", NoContact)
                              ELSE CrmRet("contact", FromDict(d))
    /\ UNCHANGED crm_created
    /\ UNCHANGED creatorVars
    /\ UNCHANGED crmFrame

\* delete_contact(i)
DeleteContact(i) ==
    /\ crm_op' = "delete"
    /\ crm_arg' = i
    /\ crm_before' = contacts_file
    /\ IF Len(Without(contacts_file, i)) < Len(contacts_file)
       THEN /\ contacts_file' = Without(contacts_file, i)
            /\ crm_ret' = CrmRet("True", NoContact)
       ELSE /\ crm_ret' = CrmRet("False", NoContact)
            /\ UNCHANGED contacts_file
    /\ UNCHANGED crm_created
    /\ UNCHANGED creatorVars
    /\ UNCHANGED crmFrame

CrmSeqNext ==
    \/ \E n \in ContactNames : CreateContact(n)
    \/ \E i \in ContactIds : GetContact(i)
    \/ \E i \in ContactIds, upd \in UpdateDatas : UpdateContact(i, upd)
    \/ \E i \in ContactIds : DeleteContact(i)

\* The methods of the store called one after the other
CrmSeqSpec == CrmInit /\ [][CrmSeqNext]_vars

\* The record of the method that ran last
seqRecord == <<crm_op, crm_arg, crm_ret, crm_before>>

\* POST /api/crm/contacts of request t: create_contact builds the Contact
CrmBuild(t, n) ==
    /\ cpc[t] = "idle"
    /\ crm_created < MaxContacts
    /\ crm_created' = crm_created + 1
    /\ ccontact' = [ccontact EXCEPT ![t] = NewContact(crm_created', n)]
    /\ cpc' = [cpc EXCEPT ![t] = "built"]
    /\ UNCHANGED <<contacts_file, cdata, crm_returned>>
    /\ UNCHANGED seqRecord
    /\ UNCHANGED crmFrame

\* data = self._load_contacts(); data["contacts"].append(contact.to_dict())
CrmLoad(t) ==
    /\ cpc[t] = "built"
    /\ cdata' = [cdata EXCEPT ![t] = Append(contacts_file, ToDict(ccontact[t]))]
    /\ cpc' = [cpc EXCEPT ![t] = "loaded"]
    /\ UNCHANGED <<contacts_file, crm_created, ccontact, crm_returned>>
    /\ UNCHANGED seqRecord
    /\ UNCHANGED crmFrame

\* self._save_contacts(data); return contact; the route answers 201
CrmSave(t) ==
    /\ cpc[t] = "loaded"
    /\ contacts_file' = cdata[t]
    /\ crm_returned' = crm_returned \cup {ccontact[t].contact_id}
    /\ cpc' = [cpc EXCEPT ![t] = "idle"]
    /\ UNCHANGED <<crm_created, ccontact, cdata>>
    /\ UNCHANGED seqRecord
    /\ UNCHANGED crmFrame

CrmNext ==
    \E t \in Creators :
        \/ \E n \in ContactNames : CrmBuild(t, n)
        \/ CrmLoad(t)
        \/ CrmSave(t)

\* The create_contact calls of concurrent requests
CrmSpec == CrmInit /\ [][CrmNext]_vars

----------------------------------------------------------------------------
(* Properties of the retry decorator *)

\* The schedule of sleeps the decorator must have slept after n failed
\* attempts: backoff_factor * 2^k after failed attempt k = 0 .. n-1.
FollowsSchedule(sl, bf) == \A k \in 1..Len(sl) : sl[k] = bf * (2 ^ (k - 1))

\* C1: for every function wrapped by with_retry(max_retries = M): if every
\* invocation raised a RequestException, the function was invoked exactly
\* M+1 times when the call ends and the last exception is what the caller
\* gets; while the call has not ended the function was invoked at most M+1
\* times; if an invocation succeeds its value is returned, and once the
\* call has ended no further invocation happens.
C1_RetryCount ==
    /\ [](/\ calls <= max_retries + 1
          /\ (pc \in Terminal /\ reqFails = calls) =>
                /\ calls = max_retries + 1
                /\ pc = "PermanentFailure"
                /\ raised = last_exception
                /\ raised = outcome.exc
                /\ IsRequestException(raised)
          /\ (pc # "Idle" /\ pc # "InFlight" /\ outcome.ok) =>
                /\ pc = "Success"
                /\ result = outcome.value
                /\ raised = NoExc)
    /\ [][(pc \in Terminal) => (calls' = calls)]_vars

\* C1 witness: a directly wrapped function failed with a RequestException
\* at every one of max_retries + 1 = 4 invocations and the call has ended.
C1_Witness ==
    /\ op = "wrapped"
    /\ max_retries = 3
    /\ pc = "PermanentFailure"
    /\ reqFails = calls
    /\ calls = 4

\* C2: the decorator sleeps exactly once before each retry, the sleep after
\* failed attempt k lasts backoff_factor * 2^k, and there is no sleep after
\* the final failed attempt, after a success or after a non-network
\* exception: the number of sleeps is always the number of retries made, it
\* never exceeds max_retries, and it is one less than the number of
\* invocations once the call has ended.
C2_BackoffSchedule ==
    /\ Len(sleeps) = attempt
    /\ Len(sleeps) <= max_retries
    /\ FollowsSchedule(sleeps, backoff_factor)
    /\ pc # "Idle" => Len(sleeps) = calls - 1

\* C2 witness: synthesize (backoff 0.4 s) has slept 400, 800 and 1600 ms and
\* its last attempt failed too.
C2_Witness ==
    /\ op = "synthesize"
    /\ sleeps = <<400, 800, 1600>>
    /\ pc = "PermanentFailure"
    /\ IsRequestException(raised)

\* C3: when an invocation raises an exception that is not a
\* RequestException, the call ends at once with that exception: no sleep
\* and no further invocation follow, however many attempts remain.
C3_NonNetworkImmediate ==
    /\ []((~outcome.ok /\ ~outcome.exc.req) =>
            /\ pc \in {"PermanentFailure", "Busy"}
            /\ raised = outcome.exc
            /\ Len(sleeps) = calls - 1)
    /\ [][(pc \in {"PermanentFailure", "Busy"}) =>
            (calls' = calls /\ sleeps' = sleeps /\ pc' = pc)]_vars

\* C3 witness: a non-network exception at the first invocation of a function
\* wrapped with max_retries = 3 ended the call, with three attempts left.
C3_Witness ==
    /\ op = "wrapped"
    /\ max_retries = 3
    /\ attempt = 0
    /\ calls = 1
    /\ pc = "PermanentFailure"
    /\ raised.kind = "Other"
    /\ sleeps = <<>>

----------------------------------------------------------------------------
(* Properties of the client calls *)

\* C4: against a backend that answers 500 exactly N times and then 200, a
\* client call with max_retries >= N succeeds; with max_retries < N it
\* raises after exactly max_retries + 1 requests to the backend, the sleeps
\* between the attempts following the exponential schedule.
C4_ScriptedBackend ==
    (op \in SessionOps /\ fileExists /\ scriptN >= 0 /\ pc \in Terminal) =>
        IF max_retries >= scriptN
        THEN pc = "Success"
        ELSE /\ pc = "PermanentFailure"
             /\ nreq = max_retries + 1
             /\ FollowsSchedule(sleeps, backoff_factor)

\* C5: when the STT backend answers a transcribe request with 202, the call
\* ends at once in the Busy condition: no further attempt is made, no
\* backoff sleep is performed for it and no transcription is returned.
C5_BusyImmediate ==
    (op = "transcribe" /\ lastAns = StatusAns(202)) =>
        /\ pc = "Busy"
        /\ raised.kind = "Busy"
        /\ outcome.exc = raised
        /\ result = ""
        /\ Len(sleeps) = calls - 1
        /\ reqFails = calls - 1

\* C5 witness: the backend answered the first request of transcribe with
\* 202, two retries were still available, and the call is Busy.
C5_Witness ==
    /\ op = "transcribe"
    /\ firstAns = StatusAns(202)
    /\ nreq = 1
    /\ calls = 1
    /\ attempt < max_retries
    /\ pc = "Busy"

\* C6: transcribe returns the transcription field when the backend answers
\* 200, and for every status other than 200 and 202 it raises an error
\* that embeds the backend's error detail.
C6_ErrorDetail ==
    (op = "transcribe" /\ pc \in Terminal /\ lastAns.kind = "status") =>
        /\ lastAns.code = 200 => (pc = "Success" /\ result = "transcription")
        /\ lastAns.code \notin {200, 202} =>
              (raised # NoExc /\ raised.detail = BackendDetail)

\* The transitions of the per-call state machine
C7_Transitions ==
    /\ pc = "Idle" => pc' = "InFlight"
    /\ pc = "InFlight" => pc' \in {"InFlight", "TransientFailure"} \cup Terminal
    /\ pc = "TransientFailure" =>
          (pc' = "InFlight" /\ attempt' = attempt + 1 /\ attempt' <= max_retries)
    /\ pc \in Terminal => pc' = pc

\* C7: every call follows Idle -> InFlight -> {Success, TransientFailure,
\* PermanentFailure, Busy}; Busy and PermanentFailure (and Success) are
\* never left; TransientFailure leads back to InFlight at most max_retries
\* times, the failure after that being permanent; and every call in flight
\* eventually reaches a terminal state.
C7_CallStateMachine ==
    /\ [](pc \in PcStates /\ attempt <= max_retries /\ reqFails <= max_retries + 1)
    /\ [](pc = "TransientFailure" => attempt < max_retries)
    /\ [][C7_Transitions]_vars
    /\ (pc = "InFlight") ~> (pc \in Terminal)
    /\ (pc = "TransientFailure") ~> (pc \in Terminal)

\* C7 witness: a call that looped back max_retries times from
\* TransientFailure and then failed permanently.
C7_Witness ==
    /\ op = "transcribe"
    /\ attempt = max_retries
    /\ reqFails = max_retries + 1
    /\ pc = "PermanentFailure"

\* C8: a transient network-class failure of the backend call (timeout,
\* connection refused) is retried by the operation-level retry up to the
\* method's max_retries before the error surfaces: when the call ends with
\* the error of such a failure, the method ran max_retries + 1 times.
C8_NetworkFailureRetried ==
    (op \in SessionOps /\ pc \in Terminal /\ raised # NoExc
        /\ lastAns.kind \in NetFailures) => calls = max_retries + 1

\* C9: an HTTP error status answered by the backend is never retried by the
\* operation-level retry: the method body runs once and the error surfaces
\* immediately, as a condition distinct from Busy.
C9_HTTPErrorNotRetried ==
    (op \in SessionOps /\ pc # "InFlight" /\ lastAns.kind = "status"
        /\ IsHTTPErrorStatus(lastAns.code)) =>
        /\ calls = 1
        /\ pc = "PermanentFailure"
        /\ raised.kind # "Busy"

\* A 4xx status outside the transport retry set
C10_NonTransient(a) ==
    /\ a.kind = "status"
    /\ a.code >= 400
    /\ a.code < 500
    /\ a.code \notin {429, 500, 502, 503, 504}

\* C10: when the backend answers a request with a 4xx status outside the
\* retry set, neither the session layer nor the operation layer sends
\* another request: the call has failed permanently with that answer as its
\* latest, and when that was the answer to the first request exactly one
\* request reached the backend in the whole call.
C10_NoRetryOn4xx ==
    op \in SessionOps =>
        /\ C10_NonTransient(lastAns) =>
              (pc = "PermanentFailure" /\ raised.status = lastAns.code)
        /\ C10_NonTransient(firstAns) => (nreq = 1 /\ calls = 1 /\ sleeps = <<>>)

\* C10 witness: synthesize got 404 to its first request and failed with one
\* request sent, three transport retries and three operation retries unused.
C10_Witness ==
    /\ op = "synthesize"
    /\ firstAns = StatusAns(404)
    /\ retries_left = 3
    /\ attempt = 0
    /\ nreq = 1
    /\ pc = "PermanentFailure"

----------------------------------------------------------------------------
(* Properties of the session's error mapping and of the gateway *)

\* The kind of error the claim expects for the failure the backend's answer
\* a stands for
C11_ExpectedKind(a) ==
    CASE a.kind \in {"ctimeout", "rtimeout"} -> "Timeout"
      [] a.kind = "refused" -> "ConnectionError"
      [] OTHER -> "HTTPError"

\* C11: ServiceSession.request either returns a response or fails with a
\* service-qualified error: when the request ended on a timeout, a
\* connection failure or an HTTP error status (also after the transport
\* retries are exhausted), the error raised names the service and tells the
\* three kinds apart.
C11_ServiceQualified ==
    (/\ op \in SessionOps
     /\ pc # "InFlight"
     /\ \/ lastAns.kind \in NetFailures
        \/ lastAns.kind = "status" /\ IsHTTPErrorStatus(lastAns.code)) =>
        /\ ~outcome.ok
        /\ outcome.exc.service = ServiceName(op)
        /\ outcome.exc.kind = C11_ExpectedKind(lastAns)

\* C12: when the STT or TTS client call fails because the backend is
\* unreachable (timeout, connection failure) or busy (STT 202), the route
\* answers 503; any other error answers 500.
C12_GatewayStatus ==
    (op \in SessionOps /\ http_status # 0 /\ pc # "Success") =>
        IF raised.kind \in {"Timeout", "ConnectionError", "Busy"}
        THEN http_status = 503
        ELSE http_status = 500

----------------------------------------------------------------------------
(* Properties of the lazily-initialised singletons *)

\* C13: under any interleaving of concurrent first calls of a singleton
\* accessor, the service object is constructed exactly once and every
\* caller receives that same instance.
C13_ConstructedOnce ==
    /\ constructions <= 1
    /\ \A t, u \in Threads :
          (tpc[t] = "done" /\ tpc[u] = "done") => (tret[t] = tret[u] /\ tret[t] # 0)

----------------------------------------------------------------------------
(* Properties of the health checks *)

\* The capabilities whose check_health() value has status healthy
C14_HealthyOnes ==
    {c \in Clients :
        \/ c = "stt" /\ stt_health.status = "healthy"
        \/ c = "tts" /\ tts_health.status = "healthy"
        \/ c = "embedding" /\ embedding_health.status = "healthy"
        \/ c = "llm" /\ llm_health.status = "healthy"}

\* C14: the report of /api/health has overall status "healthy" if and only
\* if all four capabilities report status healthy, and "partial" when at
\* least one but not all of them do.
C14_OverallStatus ==
    (endpoint = "health" /\ hpc = "done" /\ ~report.unhandled) =>
        /\ report.status = "healthy" <=> C14_HealthyOnes = Clients
        /\ (C14_HealthyOnes # {} /\ C14_HealthyOnes # Clients) => report.status = "partial"

\* C14 witness: three of the four capabilities are healthy and /api/health
\* has answered "partial".
C14_Witness ==
    /\ endpoint = "health"
    /\ hpc = "done"
    /\ Cardinality(C14_HealthyOnes) = 3
    /\ report.status = "partial"
    /\ rag_service # 0

\* C15: in both health routes the exception of a failing aggregation never
\* leaves the handler: the route always answers a well-formed report, which
\* has status "unhealthy" and an error field when the aggregation threw.
C15_NeverUnhandled ==
    hpc = "done" =>
        /\ ~report.unhandled
        /\ report.status \in {"healthy", "partial", "unhealthy"}
        /\ report.status = "unhealthy" => report.error

\* C16: check_health of the four clients never raises, and whenever the
\* probe of the backend failed (timeout, connection failure, HTTP error,
\* unparsable body) the value returned is a mapping with a degraded status
\* (unhealthy or unreachable) and an error detail.
C16_CheckHealthDegrades ==
    \A c \in Clients :
        LET h == CASE c = "stt" -> stt_health
                   [] c = "tts" -> tts_health
                   [] c = "embedding" -> embedding_health
                   [] OTHER -> llm_health
        IN /\ ~h.raised
           /\ probe_failed[c] =>
                /\ h.mapping
                /\ h.status \in {"unhealthy", "unreachable"}
                /\ h.error

\* C16 witness: the probes of all four backends failed and each client
\* returned a degraded value.
C16_Witness ==
    /\ hpc = "done"
    /\ \A c \in Clients : probe_failed[c]
    /\ embedding_health.status = "unhealthy"
    /\ stt_health.status = "unreachable"
    /\ llm_health.status = "unreachable"

\* C17: /api/v1/system/health reports each of whisper, llm and tts as
\* exactly "ready" or "not_ready", and its overall status is "healthy" only
\* if all three are "ready" (the STT, TTS, embedding and LLM values are
\* healthy and rag_service is set).
C17_PocReport ==
    (endpoint = "poc" /\ hpc = "done") =>
        /\ report.code = 200 =>
              /\ DOMAIN report.services = {"whisper", "llm", "tts"}
              /\ \A k \in DOMAIN report.services :
                    report.services[k] \in {"ready", "not_ready"}
        /\ report.status = "healthy" =>
              /\ report.code = 200
              /\ \A k \in DOMAIN report.services : report.services[k] = "ready"
              /\ stt_health.status = "healthy"
              /\ tts_health.status = "healthy"
              /\ embedding_health.status = "healthy"
              /\ llm_health.status = "healthy"
              /\ rag_service # 0

\* C17 witness: the POC route answered "healthy" with its three
\* capabilities ready.
C17_Witness ==
    /\ endpoint = "poc"
    /\ hpc = "done"
    /\ report.status = "healthy"
    /\ report.services = [whisper |-> "ready", llm |-> "ready", tts |-> "ready"]

\* C18: LLMServiceClient.check_health issues the list-models probe first,
\* issues the 1-token completion probe only if the list-models probe
\* failed, returns status healthy if either probe succeeded and status
\* unreachable, never an exception, only if both failed.
C18_TwoTier ==
    llm_probes # <<>> =>
        /\ llm_probes[1].probe = "list"
        /\ Len(llm_probes) <= 2
        /\ Len(llm_probes) = 2 <=> ~llm_probes[1].ok
        /\ Len(llm_probes) = 2 => llm_probes[2].probe = "completion"
        /\ ~llm_health.raised
        /\ llm_health.status \in {"healthy", "unreachable"}
        /\ llm_health.status = "healthy" <=>
              \E i \in 1..Len(llm_probes) : llm_probes[i].ok
        /\ llm_health.status = "unreachable" <=>
              (Len(llm_probes) = 2 /\ \A i \in 1..2 : ~llm_probes[i].ok)

\* C18 witness: the list-models probe failed, the completion probe
\* succeeded and the client reported healthy.
C18_Witness ==
    /\ Len(llm_probes) = 2
    /\ ~llm_probes[1].ok
    /\ llm_probes[2].ok
    /\ llm_health.status = "healthy"

----------------------------------------------------------------------------
(* Properties of the embedding client *)

\* Number of requests of endpoint e in the call
C19_Count(e) == Cardinality({i \in 1..Len(ereqs) : ereqs[i] = e})

\* C19: get_embedding_batch_simple requests the simple batch endpoint
\* once; if that answers 200 with a usable body it never contacts the
\* primary endpoint; if it fails (non-200 or exception) it requests the
\* primary endpoint exactly once, a failure of the primary endpoint
\* propagating without a further request.
C19_TwoTierNoRetry ==
    (eop = "get_embedding_batch_simple" /\ epc = "done" /\ etexts # <<>>) =>
        /\ ereqs[1] = "simple"
        /\ C19_Count("simple") = 1
        /\ esimple \in {"up", "nokey"} => C19_Count("primary") = 0
        /\ esimple \notin {"up", "nokey"} => C19_Count("primary") = 1

\* C20: against the same backend, get_embedding(t) raises exactly when
\* get_embeddings([t]) raises, otherwise yields the first vector of
\* get_embeddings([t]), and yields the empty vector exactly when
\* get_embeddings([t]) yields no vectors.
C20_SingleIsFirstOfBatch ==
    (eop = "get_embedding" /\ epc = "done") =>
        LET batch == GetEmbeddings(<<etexts[1]>>, eprimary, json_is_reqexc).res
        IN /\ eresult.raised = batch.raised
           /\ ~batch.raised =>
                /\ batch.value # <<>> => eresult.value = batch.value[1]
                /\ eresult.value = <<>> <=> batch.value = <<>>

\* C20 witness: get_embedding returned the vector of its text
C20_Witness ==
    /\ eop = "get_embedding"
    /\ epc = "done"
    /\ ~eresult.raised
    /\ eresult.value = Vec(etexts[1])
    /\ ereqs = <<"primary">>

----------------------------------------------------------------------------
(* Properties of the language-code mapping *)

\* C21: the language mapping of the STT client and of the TTS client is
\* total and idempotent: every call sends a code, and a call given the code
\* that the call before sent sends that code unchanged.
C21_MappingIdempotent ==
    /\ lang_log # <<>> => sent_language \in Codes
    /\ lang_fed => sent_language = language

\* C21 witness: the TTS client, given the code zh-tw it sent for zh before,
\* sent zh-tw again.
C21_Witness ==
    /\ lclient = "TTS"
    /\ lang_fed
    /\ lang_log = <<"zh-tw", "zh-tw">>

\* The fixed table of the STT client
C22_STTTable ==
    [c \in {"zh-TW", "zh-CN", "zh", "en-US", "en"} |->
        IF c \in {"zh-TW", "zh-CN", "zh"} THEN "zh" ELSE "en"]

\* The fixed table of the TTS client
C22_TTSTable ==
    [c \in {"zh-TW", "zh-CN", "zh", "en-US", "en"} |->
        CASE c \in {"zh-TW", "zh"} -> "zh-tw"
          [] c = "zh-CN" -> "zh-cn"
          [] OTHER -> "en"]

\* C22: the language code sent follows the fixed table: STT sends zh for
\* zh-TW, zh-CN and zh, en for en-US and en; TTS sends zh-tw for zh-TW and
\* zh, zh-cn for zh-CN, en for en-US and en; any other code is sent
\* unchanged.
C22_FixedTable ==
    lang_log # <<>> =>
        LET table == IF lclient = "STT" THEN C22_STTTable ELSE C22_TTSTable
        IN IF language \in DOMAIN table
           THEN sent_language = table[language]
           ELSE sent_language = language

\* C22 witness: the STT client sent zh for zh-CN, and a code outside the
\* table went out unchanged before.
C22_Witness ==
    /\ lclient = "STT"
    /\ language = "zh-CN"
    /\ lang_log = <<"ja", "zh">>

----------------------------------------------------------------------------
(* Properties of the TTS client *)

\* C23: when the backend answers 200 with payload B, synthesize returns the
\* path of a file that did not exist before, in the temp cache directory,
\* whose content is B; no file of the directory is deleted or changed by
\* synthesize; and the path differs from every path returned before.
C23_SynthesizeStoresPayload ==
    [][tts_op' = "synthesize" =>
        /\ \A n \in Names : tts_dir[n] # "absent" => tts_dir'[n] = tts_dir[n]
        /\ tts_ans' = StatusAns(200) =>
              /\ ~tts_ret'.raised
              /\ tts_ret'.value \in Names
              /\ tts_dir[tts_ret'.value] = "absent"
              /\ tts_dir'[tts_ret'.value] = tts_body'
              /\ \A i \in 1..Len(tts_paths) : tts_paths[i] # tts_ret'.value]_vars

\* C23 witness: two successful calls returned two paths, and each file
\* holds the payload of its call.
C23_Witness ==
    /\ tts_op = "synthesize"
    /\ tts_ans = StatusAns(200)
    /\ Len(tts_paths) = 2
    /\ tts_paths[1] # tts_paths[2]
    /\ tts_dir[tts_paths[1]] = "B1"
    /\ tts_dir[tts_paths[2]] = "B2"
    /\ tts_ret = TtsOk(tts_paths[2])

\* C25: get_available_languages and get_available_voices never raise, and
\* whenever the backend call fails (timeout, connection failure, HTTP error
\* status, an answer that is not 200, an exception while reading the body)
\* they return the hardcoded default.
C25_ListsFallBack ==
    tts_op \in {"get_available_languages", "get_available_voices"} =>
        /\ ~tts_ret.raised
        /\ (\/ tts_ans.kind \in NetFailures
            \/ tts_ans.code # 200
            \/ tts_body \in {"nonmap", "unparsable"}) => tts_ret.value = "default"

\* C25 witness: the voices request timed out and the default mapping was
\* returned.
C25_Witness ==
    /\ tts_op = "get_available_voices"
    /\ tts_ans.kind = "ctimeout"
    /\ tts_ret = TtsOk("default")

----------------------------------------------------------------------------
(* Properties of synthesize against a backend that always fails *)

\* C24: when the TTS backend answers 500 to every request, synthesize makes
\* 3 operation-level retries with sleeps of 0.4 s, 0.8 s and 1.6 s and then
\* raises an error that names the service TTS and carries the status 500.
C24_TTSAlways500 ==
    (/\ op = "synthesize"
     /\ scriptN >= (TTS_MAX_RETRIES + 1) * (TTS_SESSION_RETRIES + 1)
     /\ pc \in Terminal) =>
        /\ pc = "PermanentFailure"
        /\ sleeps = <<400, 800, 1600>>
        /\ raised.service = "TTS"
        /\ raised.status = 500

----------------------------------------------------------------------------
(* Frame of the health routes *)

\* C26: serving /api/health or /api/v1/system/health leaves the rag_service
\* and crm_service handles as they were (no lazy construction) and leaves
\* the service_url of every client unchanged, whatever the backends answer.
C26_HealthReadOnly ==
    [][/\ rag_service' = rag_service
       /\ crm_service' = crm_service
       /\ service_url' = service_url]_vars

\* C26 witness: a health route has answered while both handles were still
\* None, and they are None afterwards.
C26_Witness ==
    /\ hpc = "done"
    /\ ~report.unhandled
    /\ report.code = 200
    /\ rag_service = 0
    /\ crm_service = 0
    /\ service_url = ConfiguredUrls

----------------------------------------------------------------------------
(* Properties of the STT server *)

\* C27: every request that was answered 202 and placed in
\* transcription_queue is eventually taken from the queue and processed.
C27_QueuedEventuallyProcessed ==
    \A h \in Handlers : (answer[h] = 202) ~> (h \in processed)

\* The server is idle with requests left in the queue, and no handler that
\* read an empty queue is still on its way to the lock
C27_Stuck ==
    /\ ~is_processing
    /\ transcription_queue # <<>>
    /\ \A h \in Handlers :
          /\ spc[h] \notin {"process", "drain", "finally"}
          /\ spc[h] = "lock" => queue_size[h] > 0

\* Once stuck the server stays stuck whatever arrives: every later request
\* is queued, and nothing is taken from the queue or processed.
C27_StuckForever ==
    [][C27_Stuck => (C27_Stuck' /\ processed' = processed)]_vars

\* C28: whenever no handler is processing (is_processing is false) the
\* queue is empty, so a request is answered 202 only while another handler
\* is processing.
C28_IdleMeansEmptyQueue ==
    ~is_processing => transcription_queue = <<>>

\* The handlers inside the processing section
C29_InSection == {h \in Handlers : spc[h] \in {"process", "drain", "finally"}}

\* C29: at most one handler is inside the processing section at any time,
\* and is_processing is true exactly while a handler is inside it: it is
\* false again after every exit, exits by exception included.
C29_OneProcessor ==
    /\ Cardinality(C29_InSection) <= 1
    /\ is_processing <=> C29_InSection # {}

\* C29 witness: one handler left the section normally, another by an
\* exception, a third is inside it.
C29_Witness ==
    \E a, b, c \in Handlers :
        /\ spc[a] = "done" /\ answer[a] = 200
        /\ spc[b] \in {"respond", "done"} /\ raising[b]
        /\ spc[c] = "drain"
        /\ is_processing

\* C30: the queue_position of a 202 answer is the position the request
\* takes in transcription_queue, and two requests that are in the queue at
\* the same time never have the same queue_position.
C30_QueuePosition ==
    [][/\ \A h \in Handlers :
            (answer[h] = 0 /\ answer'[h] = 202) =>
                queue_position'[h] = Len(transcription_queue')
       /\ \A i, j \in 1..Len(transcription_queue') :
            i # j => queue_position'[transcription_queue'[i]]
                        # queue_position'[transcription_queue'[j]]]_vars

----------------------------------------------------------------------------
(* The two health views compared *)

\* C31: whenever /api/health reports overall "healthy",
\* /api/v1/system/health evaluated on the same four health values and the
\* same rag_service handle reports "healthy" too.
C31_ViewsAgree ==
    (endpoint = "health" /\ hpc = "done" /\ ~report.unhandled
        /\ report.status = "healthy") =>
        PocReport(stt_health, tts_health, embedding_health, llm_health,
                  rag_service).status = "healthy"

\* C32: the overall status of /api/health is always healthy or partial, it
\* is partial when none of the four capabilities reports healthy, and it is
\* the same whatever the rag_service and crm_service handles are.
C32_HealthyOrPartial ==
    (endpoint = "health" /\ hpc = "done" /\ ~report.unhandled) =>
        /\ report.status \in {"healthy", "partial"}
        /\ (/\ stt_health.status # "healthy"
            /\ tts_health.status # "healthy"
            /\ embedding_health.status # "healthy"
            /\ llm_health.status # "healthy") => report.status = "partial"
        /\ \A rag, crm \in {0, 1} :
              HealthReport(stt_health, tts_health, embedding_health, llm_health,
                           rag, crm).status = report.status

\* C32 witness: no capability is healthy, both handles are set, and
\* /api/health answered "partial".
C32_Witness ==
    /\ endpoint = "health"
    /\ hpc = "done"
    /\ report.status = "partial"
    /\ report.services.crm
    /\ rag_service = 1
    /\ stt_health.status = "unreachable"
    /\ tts_health.status = "unhealthy"
    /\ embedding_health.status = "unhealthy"
    /\ llm_health.status = "unreachable"

----------------------------------------------------------------------------
(* The health probe of the TTS client *)

\* C33: TTSServiceClient.check_health returns status "unhealthy" with an
\* HTTP error detail when the backend answers the probe with a status code
\* other than 200 (4xx and 5xx included), and returns "unreachable" only
\* when no answer was obtained.
C33_UnhealthyVsUnreachable ==
    tts_op = "check_health" =>
        /\ (tts_ans.kind = "status" /\ tts_ans.code # 200) =>
              (tts_ret.value.status = "unhealthy" /\ tts_ret.value.error)
        /\ tts_ret.value.status = "unreachable" => tts_ans.kind \in NetFailures

----------------------------------------------------------------------------
(* Errors of the embedding client *)

\* C34: get_embeddings makes exactly one backend request per call for every
\* non-empty list of texts (no retry); a network failure surfaces as the
\* "service temporarily unavailable" error and a non-200 answer as an error
\* carrying the status code.
C34_OneRequest ==
    (eop = "get_embeddings" /\ epc = "done" /\ etexts # <<>>) =>
        /\ ereqs = <<"primary">>
        /\ eprimary = "down" =>
              (eresult.raised /\ eresult.msg = "Embedding-unavailable")
        /\ eprimary = "http500" =>
              (eresult.raised /\ eresult.msg = "Embedding-error-500")

\* C34 witness: the backend was down, one request was made and the
\* unavailable error was raised.
C34_Witness ==
    /\ eop = "get_embeddings"
    /\ epc = "done"
    /\ Len(etexts) = 2
    /\ eprimary = "down"
    /\ ereqs = <<"primary">>
    /\ eresult = EmbRaise("Embedding-unavailable")

----------------------------------------------------------------------------
(* Closing the clients *)

\* C35: close() of each of the four clients, called at any point after
\* construction, returns without raising, and the client's session, when
\* it has one, is released.
C35_CloseNeverRaises ==
    \A c \in Clients :
        /\ close_ret[c] # "raised"
        /\ (close_ret[c] = "returned" /\ HasSession(c)) => ~session_open[c]

----------------------------------------------------------------------------
(* The RAG service *)

\* The languages of the requests that contain 'zh'
C36_ZhLanguages == {ZH_TW, ZH}

\* C36: query never raises: when the similarity search or the LLM
\* generation fails it returns the default answer of the request language
\* (the Chinese one when the language contains 'zh', the English one
\* otherwise), and /api/rag answers 200.
C36_QueryNeverRaises ==
    (rag_op = "query" /\ rag_query # "") =>
        /\ query_out.kind = "return"
        /\ rag_status = 200
        /\ failed_step # "none" =>
              query_out.value = IF rag_language \in C36_ZhLanguages
                                THEN APOLOGY_ZH ELSE APOLOGY_EN

\* The LLM generation of a query in Chinese has failed and the Chinese
\* default answer has been returned
C36_Witness ==
    /\ rag_op = "query"
    /\ rag_language = ZH_TW
    /\ failed_step = "llm"
    /\ query_out = Returned(APOLOGY_ZH)
    /\ rag_status = 200

\* C37: update_knowledge_item returns True only if the item is in
\* knowledge_items with the new content afterwards, and returns False when
\* adding the item to the vector store fails.
C37_UpdateReportsFailure ==
    rag_op = "update" =>
        /\ rag_ret = "True" => knowledge_items[rag_id] = rag_content
        /\ add_failed => rag_ret = "False"

\* C38: after delete_knowledge_item(id) has returned True, no
\* list_knowledge_items() returns id until an update of id.
C38_DeletedStayDeleted ==
    rag_op = "list" => \A d \in list_ret : d[1] \notin deleted_ids

----------------------------------------------------------------------------
(* The contact store *)

\* get_contact(id) returns the stored contact with that id
C39_GetReturnsStored ==
    (crm_op = "get" /\ Positions(contacts_file, crm_arg) # {}) =>
        /\ crm_ret.value = "contact"
        /\ crm_ret.contact.contact_id = crm_arg

\* delete_contact(id) returns True exactly when a contact with that id was
\* stored; afterwards none is, and the other contacts are as they were
C39_DeleteExact ==
    crm_op = "delete" =>
        /\ crm_ret.value = "True" <=> Positions(crm_before, crm_arg) # {}
        /\ Positions(contacts_file, crm_arg) = {}
        /\ contacts_file = Without(crm_before, crm_arg)

\* update_contact leaves the contact_id of every contact as it was
C39_UpdateKeepsId ==
    crm_op = "update" =>
        /\ Len(contacts_file) = Len(crm_before)
        /\ \A k \in 1..Len(contacts_file) :
              contacts_file[k].contact_id = crm_before[k].contact_id

\* delete_contact has removed one of several contacts: another is left
C39_DeleteWitness ==
    /\ crm_op = "delete"
    /\ crm_ret.value = "True"
    /\ Len(contacts_file) >= 1

\* update_contact has changed a stored contact
C39_UpdateWitness ==
    /\ crm_op = "update"
    /\ Positions(crm_before, crm_arg) # {}
    /\ contacts_file # crm_before

\* C39: in the contact store, run sequentially: get_contact(id) returns the
\* contact that create_contact returned with that id; delete_contact(id)
\* returns True exactly when the contact was stored, afterwards the contact
\* is gone and every other contact is unchanged; update_contact never
\* changes a contact_id.
C39_StoreLaws ==
    /\ C39_GetReturnsStored
    /\ C39_DeleteExact
    /\ C39_UpdateKeepsId

\* C40: no update is lost: the contact of every create_contact call that
\* has returned is in the store, however the calls interleave.
C40_NoLostUpdate ==
    \A i \in crm_returned : Positions(contacts_file, i) # {}

====
